---- MODULE Spec2Model ----
(***************************************************************************)
(* A model of the terminal user-interface engine: the event dispatch       *)
(* substrate (src/event/eventable.py, src/event/event.py) and the canvas   *)
(* (src/canvas.py).                                                        *)
(*                                                                         *)
(* Two threads use one event queue (a Python list): the input-reader       *)
(* thread appends with call_event, the owning thread pops with             *)
(* handle_events.  list.append and list.pop(0) are single atomic steps;    *)
(* everything between them may interleave, so the owning thread's handler  *)
(* is modelled statement by statement with a program counter.              *)
(***************************************************************************)
EXTENDS Integers, Sequences, FiniteSets, TLC

\* ---------------------------------------------------------------- bounds
MaxEvents == 2     \* call_event calls of the reader thread
MaxAppends == 3    \* events ever appended to the queue (reader's and Error/Any ones)
MaxAnyAppends == 6 \* the same with the Any toggle on (every event has its wrapper)
MaxLimit == 2      \* largest limit handed to handle_events
MaxW == 3          \* largest canvas width
MaxText == 3       \* longest text handed to write_at
MaxStyles == 3     \* entries of Terminal.STYLES applied
MaxClock == 4      \* largest value of the clock (monotonic(), in units of 0.2 s)
MaxCode == 35      \* largest n of the ESC [ n ~ sequences sent
MaxPaste == 2      \* longest text sent between the paste markers

\* ------------------------------------------------------- program constants
CATCH_EXCEPTIONS == TRUE

\* The callbacks that get registered: the k-th add_listener call registers
\* callback k (0 stands for the on_<type> handler).  The matchers they are
\* registered on and the keys the reader reports.
Callbacks == {1, 2, 3}
Matchers == {"key", "a", "error"}
Keys == {"a"}

\* The on_<type> fallback handlers the consumer (App) defines.
Handlers == {"key", "paste", "mouse", "resize", "error"}

\* canvas.py, line 5.
DEFAULT_CHAR == " "

\* The canvas heights, the characters of cells, and the dimensions rect is
\* called with.
Heights == 0..2
Chars == {DEFAULT_CHAR, "a"}
RectDims == -1..2

VARIABLES
    \* --- Eventable
    event_queue,   \* self.event_queue: the list shared by both threads
    listeners,     \* self.listeners: insertion-ordered dict, as a sequence of [e, l]
    ANY_EVENTS,    \* the module-level toggle
    \* --- the owning thread inside handle_events / handle_event
    pc,            \* "idle" | "loop" | "pop" | "for" | "fallback" | "return"
    limit,         \* handle_events' argument
    i,             \* handle_events' counter
    ret,           \* the value handle_events returns (-1: none)
    event,         \* the event being dispatched by handle_event
    snap,          \* self.listeners.copy(): the dict as it was when the dispatch began
    mi,            \* position of the outer for loop (index of the dict item)
    li,            \* position of the inner for loop (index in the item's list)
    cpend,         \* owning thread inside call_event: event whose "any" wrapper is due
    ppend,         \* reader thread inside call_event: event whose "any" wrapper is due
    produced,      \* number of call_event calls the reader thread made
    \* --- observation (history)
    registered,    \* every add_listener call, in order: [e, cb, ar]
    appended,      \* every event appended to the queue, in append order
    dispatched,    \* the n of every event handed to handle_event, in order
    calls,         \* the callback invocations of the current/last dispatch, in order
    fired,         \* per callback, the number of its invocations so far
    quiet,         \* no reader append since the current handle_events call began
    startLen,      \* Len(dispatched) when the current handle_events call began
    startEmpty,    \* whether the queue was empty when that call began
    \* --- Canvas
    canvas,        \* the Canvas object: [w, h, data], data a list of rows of cells
    ok,            \* whether the last canvas call returned (FALSE: AssertionError)
    styles,        \* StylizedCanvas.styles: a list of rows of style bitmasks
    new,           \* the canvas sub() / copy() returned: [w, h, data, same]
    call,          \* the last canvas call: its name, arguments, the canvas before, its result
    \* --- Terminal
    term,          \* the Terminal object: [props, current_style, pasting, paste_text, last_key, cursorPos]
    stdout,        \* what write() has written to sys.stdout, in order
    stdin,         \* the bytes waiting on sys.stdin
    reader,        \* the reader thread: its position and locals in loop_get_chars
    clock,         \* monotonic(), in units of ALT_TIMEOUT / 2
    wire,          \* the bytes the terminal has still to send
    \* --- the life of the program
    tty,           \* the terminal device and terminal.old_settings: [mode, old_settings]
    app,           \* the App object and the owning thread's position in App.run
    access,        \* the attributes each thread has read or written so far
    \* --- EventQueue
    equeue         \* an EventQueue object, its loop thread and a thread calling stop()

\* the frame of handle_events / handle_event
frame == <<limit, i, ret, event, snap, mi, li>>
\* the ghost variables of one handle_events call
callGhost == <<quiet, startLen, startEmpty>>

evVars == <<event_queue, listeners, ANY_EVENTS, pc, frame, cpend, ppend, produced,
            registered, appended, dispatched, calls, fired, callGhost>>

cvVars == <<canvas, ok>>

\* the objects and the history around one canvas call
callVars == <<styles, new, call>>

\* the input side: sys.stdin, the thread that reads it, the clock it reads
inVars == <<stdin, reader, clock, wire>>

\* the device, the application that owns the terminal
lifeVars == <<tty, app, equeue>>

termVars == <<term, stdout, inVars, lifeVars, access>>

\* what the event machinery, the canvas calls and the terminal leave alone
notEv == <<cvVars, callVars, termVars>>
notCv == <<evVars, callVars, termVars>>
notTerm == <<evVars, cvVars, callVars>>
notCall == <<evVars, termVars>>

vars == <<evVars, cvVars, callVars, termVars>>

\* ------------------------------------------------------------ objects at rest
\* A canvas of no cells, and "no canvas returned yet".
NoCanvas == [w |-> 0, h |-> 0, data |-> <<>>]
NoNew == [made |-> FALSE, w |-> 0, h |-> 0, data |-> <<>>, same |-> FALSE, styles |-> <<>>]

\* Terminal.__init__, lines 242-251: cursorPos = [0, 0], pasting = False,
\* paste_text = None, last_key = None, props = {} and current_style = None.  The
\* dict is a function on the property names; a name it does not hold has the
\* value props.get(name) gives for it, None.  The values it holds are the
\* bools True and False, written as Python prints them.
None == -1
PropNames == {"mouse_tracking", "bracketed_paste", "alternative_screen", "cursor_visible"}
Unset == "None"
NewTerminal ==
    [props |-> [n \in PropNames |-> Unset], current_style |-> None, pasting |-> FALSE,
     paste_text |-> None, last_key |-> None, cursorPos |-> <<0, 0>>,
     running |-> FALSE, thread_started |-> FALSE]

\* loop_get_chars, line 480: last_is_escape = False, and the loop is about to
\* test self.running (line 482).  args is the local of parse_csi.
ReaderIdle == [pc |-> "loop", last_is_escape |-> FALSE, args |-> <<>>]
\* The reader between two calls of get_chars, and with no ESC pending.
AtLoop == reader.pc \in {"loop", "get_chars"}
DecoderIdle == AtLoop /\ ~reader.last_is_escape
\* Terminal.__init__, line 243: the thread is made and not started.
ReaderNew == [ReaderIdle EXCEPT !.pc = "new"]

\* terminal.py line 105, old_settings = None, and the device in the mode the
\* shell left it in.
Cooked == "cooked"
Raw == "raw"
NewTty == [mode |-> Cooked, old_settings |-> Unset]

\* App.__init__, lines 32-47: initialized = False, running = False; the owning
\* thread has not entered run().
NewApp == [pc |-> "new", initialized |-> FALSE, running |-> FALSE]

\* EventQueue.__init__, lines 9-13: an empty queue, the thread made and not
\* started, running = False, no handler yet; no stop() called, nothing queued
\* or handled so far.
NewEventQueue ==
    [queue |-> <<>>, running |-> FALSE, handlers |-> 0,
     thread |-> [pc |-> "new", ev |-> 0, h |-> 0],
     stop |-> [pc |-> "idle", wait |-> FALSE, before |-> 0, on_running |-> FALSE],
     queued |-> 0, passed |-> {}, self_stop |-> FALSE]

\* The record of "no call made yet".
NoCall ==
    [op |-> "none", x |-> 0, y |-> 0, w |-> 0, h |-> 0, text |-> <<>>,
     src |-> NoCanvas, before |-> NoCanvas, st |-> <<>>, out |-> <<>>,
     name |-> "", value |-> "", force |-> FALSE, style |-> 0, t |-> NewTerminal]

EvAtRest ==
    /\ event_queue = <<>>
    /\ listeners = <<>>
    /\ ANY_EVENTS = FALSE
    /\ pc = "idle"
    /\ limit = 0
    /\ i = 0
    /\ ret = -1
    /\ event = [type |-> "none", key |-> "", n |-> 0, of |-> <<0, 0>>]
    /\ snap = <<>>
    /\ mi = 1
    /\ li = 1
    /\ cpend = [type |-> "none", key |-> "", n |-> 0, of |-> <<0, 0>>]
    /\ ppend = [type |-> "none", key |-> "", n |-> 0, of |-> <<0, 0>>]
    /\ produced = 0
    /\ registered = <<>>
    /\ appended = <<>>
    /\ dispatched = <<>>
    /\ calls = <<>>
    /\ fired = [c \in Callbacks \cup {0} |-> 0]
    /\ quiet = TRUE
    /\ startLen = 0
    /\ startEmpty = TRUE

CanvasAtRest == canvas = NoCanvas /\ ok = TRUE
CallAtRest == styles = <<>> /\ new = NoNew /\ call = NoCall
InAtRest == stdin = <<>> /\ reader = ReaderNew /\ clock = 1 /\ wire = <<>>
LifeAtRest == tty = NewTty /\ app = NewApp /\ access = {} /\ equeue = NewEventQueue
TermAtRest == term = NewTerminal /\ stdout = <<>> /\ InAtRest /\ LifeAtRest

\* ------------------------------------------------------------------ events
\* src/event/event.py.  n is the position of the event in the append history
\* (an identity); of is the payload of an Error event (the exception: the n of
\* the event being dispatched and the number of the invocation that raised) or
\* of an Any event (the n of the wrapped event).
NoEvent == [type |-> "none", key |-> "", n |-> 0, of |-> <<0, 0>>]
KeyEvent(key, n) == [type |-> "key", key |-> key, n |-> n, of |-> <<0, 0>>]
ErrorEvent(exc, n) == [type |-> "error", key |-> "", n |-> n, of |-> exc]
AnyEvent(e, n) == [type |-> "any", key |-> "", n |-> n, of |-> <<e.n, 0>>]

\* str.lower() on the strings that occur as matchers and type tags.
Lower(s) ==
    CASE s = "KEY" -> "key"
      [] s = "A" -> "a"
      [] s = "ERROR" -> "error"
      [] OTHER -> s

\* BaseEvent.match / KeyEvent.match for a string matcher.
BaseMatch(ev, value) == Lower(ev.type) = Lower(value)

Match(ev, value) ==
    \/ BaseMatch(ev, value)
    \/ ev.type = "key" /\ value = ev.key

\* ---------------------------------------------------------------- registry
KeyIndex(reg, e) ==
    IF \E k \in 1..Len(reg) : reg[k].e = e
    THEN CHOOSE k \in 1..Len(reg) : reg[k].e = e
    ELSE 0

\* Eventable.add_listener
AddListenerTo(reg, e, callback, auto_remove) ==
    LET reg1 == IF KeyIndex(reg, e) = 0 THEN Append(reg, [e |-> e, l |-> <<>>]) ELSE reg
        k == KeyIndex(reg1, e)
    IN [reg1 EXCEPT ![k].l = Append(@, [cb |-> callback, ar |-> auto_remove])]

\* list.remove(x): deletes the first item equal to x.
ListRemove(l, x) ==
    LET k == CHOOSE j \in 1..Len(l) : l[j] = x /\ \A m \in 1..(j-1) : l[m] # x
    IN SubSeq(l, 1, k - 1) \o SubSeq(l, k + 1, Len(l))

NumListeners(reg) ==
    LET RECURSIVE Sum(_)
        Sum(k) == IF k = 0 THEN 0 ELSE Len(reg[k].l) + Sum(k - 1)
    IN Sum(Len(reg))

\* ------------------------------------------------------------- call_event
\* Eventable.call_event, line 64: self.event_queue.append(event).  The n of
\* the new event is its position in the append history.
NextN == Len(appended) + 1

QueueAppendRacy(ev) ==
    /\ event_queue' = IF pc = "pop" THEN event_queue ELSE Append(event_queue, ev)
    /\ appended' = Append(appended, ev)

QueueAppend(ev) ==
    /\ event_queue' = Append(event_queue, ev)
    /\ appended' = Append(appended, ev)

\* Eventable.call_event, line 66: whether the "any" wrapper follows.
WantsAny(ev) == ANY_EVENTS /\ ev.type # "any"

\* Room for one call_event (the event and its wrapper) below the bound.
Room ==
    IF ANY_EVENTS THEN Len(appended) + 2 <= MaxAnyAppends
    ELSE Len(appended) + 1 <= MaxAppends

\* ------------------------------------------------------- the reader thread
\* Terminal.get_chars -> self.call_event("key", c): the append of line 64.
ReaderCallEvent(key) ==
    /\ ppend = NoEvent
    /\ produced < MaxEvents
    /\ Room
    /\ LET ev == KeyEvent(key, NextN)
       IN /\ QueueAppend(ev)
          /\ ppend' = IF WantsAny(ev) THEN ev ELSE NoEvent
    /\ produced' = produced + 1
    /\ quiet' = FALSE
    /\ UNCHANGED notEv
    /\ UNCHANGED <<listeners, ANY_EVENTS, pc, frame, cpend, registered, dispatched, calls,
                   fired, startLen, startEmpty>>

\* call_event, line 67, on the reader thread: self.call_event("any", event).
ReaderCallEventAny ==
    /\ ppend # NoEvent
    /\ QueueAppend(AnyEvent(ppend, NextN))
    /\ ppend' = NoEvent
    /\ quiet' = FALSE
    /\ UNCHANGED notEv
    /\ UNCHANGED <<listeners, ANY_EVENTS, pc, frame, cpend, produced, registered,
                   dispatched, calls, fired, startLen, startEmpty>>

\* ------------------------------------------------------- the owning thread
\* Eventable.add_listener.  Listeners are registered at set-up, before the
\* first event is queued.
AddListener(e, auto_remove) ==
    /\ pc = "idle"
    /\ appended = <<>>
    /\ NumListeners(listeners) + 1 \in Callbacks
    /\ listeners' = AddListenerTo(listeners, e, NumListeners(listeners) + 1, auto_remove)
    /\ registered' = Append(registered, [e |-> e, cb |-> NumListeners(listeners) + 1,
                                         ar |-> auto_remove])
    /\ UNCHANGED notEv
    /\ UNCHANGED <<event_queue, ANY_EVENTS, pc, frame, cpend, ppend, produced, appended,
                   dispatched, calls, fired, callGhost>>

\* handle_events, lines 20-21: entry, i = 0.
HandleEventsBegin(lim) ==
    /\ pc = "idle"
    /\ cpend = NoEvent
    /\ pc' = "loop"
    /\ limit' = lim
    /\ i' = 0
    /\ quiet' = TRUE
    /\ startLen' = Len(dispatched)
    /\ startEmpty' = (event_queue = <<>>)
    /\ UNCHANGED notEv
    /\ UNCHANGED <<event_queue, listeners, ANY_EVENTS, ret, event, snap, mi, li, cpend,
                   ppend, produced, registered, appended, dispatched, calls, fired>>

\* handle_events, line 23: the while condition.
WhileCondOffByOne == i <= limit /\ event_queue # <<>>

WhileCond == i < limit /\ event_queue # <<>>

\* handle_events, line 23 (the while test) and line 30 (return i): the value
\* is in ret while pc = "return".
LoopTest ==
    /\ pc = "loop"
    /\ IF WhileCond
       THEN pc' = "pop" /\ ret' = ret
       ELSE pc' = "return" /\ ret' = i
    /\ UNCHANGED notEv
    /\ UNCHANGED <<event_queue, listeners, ANY_EVENTS, limit, i, event, snap, mi, li, cpend,
                   ppend, produced, registered, appended, dispatched, calls, fired,
                   callGhost>>

\* The caller has the returned value; handle_events' frame is gone.
Return ==
    /\ pc = "return"
    /\ pc' = "idle"
    /\ limit' = 0
    /\ i' = 0
    /\ ret' = -1
    /\ event' = NoEvent
    /\ quiet' = TRUE
    /\ startLen' = 0
    /\ startEmpty' = TRUE
    /\ UNCHANGED notEv
    /\ UNCHANGED <<event_queue, listeners, ANY_EVENTS, snap, mi, li, cpend, ppend,
                   produced, registered, appended, dispatched, calls, fired>>

\* list.pop(0): the item taken and the list left, in one step.
ListPopLast(q) == <<q[Len(q)], SubSeq(q, 1, Len(q) - 1)>>

ListPop0(q) == <<Head(q), Tail(q)>>

\* handle_events, line 24: event = self.event_queue.pop(0); then handle_event,
\* line 47: self.listeners.copy().items() starts the outer loop.
Pop ==
    /\ pc = "pop"
    /\ event' = ListPop0(event_queue)[1]
    /\ event_queue' = ListPop0(event_queue)[2]
    /\ dispatched' = Append(dispatched, event'.n)
    /\ snap' = listeners
    /\ mi' = 1
    /\ li' = 1
    /\ pc' = "for"
    /\ calls' = <<>>
    /\ UNCHANGED notEv
    /\ UNCHANGED <<listeners, ANY_EVENTS, limit, i, ret, cpend, ppend, produced,
                   registered, appended, fired, callGhost>>

\* handle_event, line 47: dict.copy() is shallow.  The copy has its own keys
\* but its values are the very list objects of self.listeners, so the inner
\* loop of line 49 iterates the list that line 52 mutates.
IterList(m) == listeners[KeyIndex(listeners, snap[m].e)].l

\* The position the two nested for loops reach next from (m, l): Python's list
\* iterator keeps an index and stops when it is past the end of the list.
RECURSIVE Seek(_, _)
Seek(m, l) ==
    IF m > Len(snap) THEN <<0, 0>>
    ELSE IF Match(event, snap[m].e) /\ l <= Len(IterList(m)) THEN <<m, l>>
    ELSE Seek(m + 1, 1)

\* exec_callback, lines 35-38: whether an invocation that raised or not ends
\* in call_event("error", e).
AppendsErrorAlways(raised) == raised /\ CATCH_EXCEPTIONS

AppendsError(raised) == raised /\ CATCH_EXCEPTIONS /\ event.type # "error"

\* exec_callback, lines 39-40: whether the exception leaves exec_callback.
Propagates(raised) == raised /\ ~CATCH_EXCEPTIONS

\* exec_callback, line 38: the Error events call_event appends for exception exc.
ErrorEvents(exc) == <<ErrorEvent(exc, NextN)>>

\* exec_callback, lines 32-44: the effect on the queue of one callback
\* invocation, which is invocation number Len(calls) + 1 of this dispatch.
ExecCallback(raised) ==
    IF AppendsError(raised)
    THEN LET evs == ErrorEvents(<<event.n, Len(calls) + 1>>)
         IN /\ event_queue' = event_queue \o evs
            /\ appended' = appended \o evs
            /\ cpend' = IF WantsAny(evs[1]) THEN evs[1] ELSE NoEvent
    ELSE UNCHANGED <<event_queue, appended, cpend>>

\* A callback may raise only while the bound on appended events leaves room
\* for the Error event.
MayRaise(raised) == AppendsError(raised) => Room

\* handle_event, lines 49-52: one pass of the inner loop body.
InvokeListener(raised) ==
    /\ pc = "for"
    /\ cpend = NoEvent
    /\ Seek(mi, li) # <<0, 0>>
    /\ MayRaise(raised)
    /\ LET pos == Seek(mi, li)
           e == snap[pos[1]].e
           item == IterList(pos[1])[pos[2]]
           k == KeyIndex(listeners, e)
       IN /\ calls' = Append(calls, [n |-> event.n, cb |-> item.cb, m |-> e,
                                     raised |-> raised])
          /\ fired' = [fired EXCEPT ![item.cb] = @ + 1]
          /\ ExecCallback(raised)
          /\ listeners' = IF item.ar /\ ~Propagates(raised)
                          THEN [listeners EXCEPT ![k].l = ListRemove(@, item)]
                          ELSE listeners
          /\ mi' = pos[1]
          /\ li' = pos[2] + 1
    /\ pc' = IF Propagates(raised) THEN "raised" ELSE pc
    /\ UNCHANGED notEv
    /\ UNCHANGED <<ANY_EVENTS, limit, i, ret, event, snap, ppend, produced, registered,
                   dispatched, callGhost>>

\* handle_event: both loops are exhausted.
EndFor ==
    /\ pc = "for"
    /\ cpend = NoEvent
    /\ Seek(mi, li) = <<0, 0>>
    /\ pc' = "fallback"
    /\ UNCHANGED notEv
    /\ UNCHANGED <<event_queue, listeners, ANY_EVENTS, frame, cpend, ppend, produced,
                   registered, appended, dispatched, calls, fired, callGhost>>

\* handle_event, line 54: hasattr(self, "on_" + event.type).
HasHandler(ev) == ev.type \in Handlers

\* handle_event, lines 54-55 (the on_<type> handler, callback 0), then
\* handle_events, line 28: i += 1.
Fallback(raised) ==
    /\ pc = "fallback"
    /\ cpend = NoEvent
    /\ MayRaise(raised)
    /\ IF HasHandler(event)
       THEN /\ calls' = Append(calls, [n |-> event.n, cb |-> 0, m |-> "", raised |-> raised])
            /\ fired' = [fired EXCEPT ![0] = @ + 1]
            /\ ExecCallback(raised)
            /\ pc' = IF Propagates(raised) THEN "raised" ELSE "loop"
            /\ i' = IF Propagates(raised) THEN i ELSE i + 1
       ELSE /\ raised = FALSE
            /\ pc' = "loop"
            /\ i' = i + 1
            /\ UNCHANGED <<calls, fired, event_queue, appended, cpend>>
    /\ UNCHANGED notEv
    /\ UNCHANGED <<listeners, ANY_EVENTS, limit, ret, event, snap, mi, li, ppend, produced,
                   registered, dispatched, callGhost>>

\* call_event, line 67, on the owning thread (from exec_callback).
OwnerCallEventAny ==
    /\ cpend # NoEvent
    /\ QueueAppend(AnyEvent(cpend, NextN))
    /\ cpend' = NoEvent
    /\ UNCHANGED notEv
    /\ UNCHANGED <<listeners, ANY_EVENTS, pc, frame, ppend, produced, registered,
                   dispatched, calls, fired, callGhost>>

\* ------------------------------------------------------------ specification
\* The state after Eventable.__init__, with the toggle as line 9 sets it.
InitEv ==
    /\ event_queue = <<>>
    /\ listeners = <<>>
    /\ ANY_EVENTS = FALSE
    /\ pc = "idle"
    /\ limit = 0
    /\ i = 0
    /\ ret = -1
    /\ event = NoEvent
    /\ snap = <<>>
    /\ mi = 1
    /\ li = 1
    /\ cpend = NoEvent
    /\ ppend = NoEvent
    /\ produced = 0
    /\ registered = <<>>
    /\ appended = <<>>
    /\ dispatched = <<>>
    /\ calls = <<>>
    /\ fired = [c \in Callbacks \cup {0} |-> 0]
    /\ quiet = TRUE
    /\ startLen = 0
    /\ startEmpty = TRUE
    /\ canvas = [w |-> 0, h |-> 0, data |-> <<>>]
    /\ ok = TRUE
    /\ CallAtRest
    /\ TermAtRest

NextEv ==
    \/ \E key \in Keys : ReaderCallEvent(key)
    \/ \E e \in Matchers, auto_remove \in BOOLEAN : AddListener(e, auto_remove)
    \/ \E lim \in 0..MaxLimit : HandleEventsBegin(lim)
    \/ LoopTest
    \/ Return
    \/ Pop
    \/ \E raised \in BOOLEAN : InvokeListener(raised)
    \/ EndFor
    \/ \E raised \in BOOLEAN : Fallback(raised)

Spec == InitEv /\ [][NextEv]_vars

\* ------------------------------------------------------------------ canvas
\* src/canvas.py.  A cell is a one-character string, a row (a Python str) a
\* sequence of cells, a text a sequence of characters.  Every operation gives
\* the canvas it leaves and whether it returned: ok is FALSE when an assert
\* failed, and the canvas is then as the statements before the assert left it.
Returned(c) == [cv |-> c, ok |-> TRUE]
AssertionError(c) == [cv |-> c, ok |-> FALSE]

\* min(a, b)
Min(a, b) == IF a < b THEN a ELSE b

\* str * n and list * n: n copies, none when n <= 0.
Repeat(x, n) == [k \in 1..n |-> x]

\* Canvas.__init__ after its assert, lines 16-18.
NewCanvas(w, h, char) == [w |-> w, h |-> h, data |-> Repeat(Repeat(char[1], w), h)]

\* Canvas.get_line, after its assert.
GetLine(c, y) == c.data[y + 1]

\* Canvas.set_line
SetLineUnchecked(c, y, line) ==
    IF ~(0 <= y /\ y < c.h) THEN AssertionError(c)
    ELSE Returned([c EXCEPT !.data[y + 1] = line])

SetLine(c, y, line) ==
    IF ~(0 <= y /\ y < c.h) THEN AssertionError(c)
    ELSE IF Len(line) # c.w THEN AssertionError(c)
    ELSE Returned([c EXCEPT !.data[y + 1] = line])

\* Canvas.set_line_part
SetLinePartTruncating(c, y, x, part) ==
    IF part = <<>> THEN Returned(c)
    ELSE IF ~(0 <= x /\ x < c.w) THEN AssertionError(c)
    ELSE IF ~(0 <= y /\ y < c.h) THEN AssertionError(c)
    ELSE LET l == GetLine(c, y)
             cut == SubSeq(part, 1, Min(Len(part), c.w - x))
         IN SetLine(c, y, SubSeq(l, 1, x) \o cut \o SubSeq(l, x + Len(cut) + 1, Len(l)))

SetLinePartInsert(c, y, x, part) ==
    IF part = <<>> THEN Returned(c)
    ELSE IF ~(0 <= x /\ x < c.w) THEN AssertionError(c)
    ELSE IF ~(0 <= y /\ y < c.h) THEN AssertionError(c)
    ELSE IF ~(0 <= Len(part) /\ Len(part) <= c.w - x) THEN AssertionError(c)
    ELSE LET l == GetLine(c, y)
         IN SetLine(c, y, SubSeq(l, 1, x) \o part \o SubSeq(l, x + 1, Len(l)))

SetLinePart(c, y, x, part) ==
    IF part = <<>> THEN Returned(c)
    ELSE IF ~(0 <= x /\ x < c.w) THEN AssertionError(c)
    ELSE IF ~(0 <= y /\ y < c.h) THEN AssertionError(c)
    ELSE IF ~(0 <= Len(part) /\ Len(part) <= c.w - x) THEN AssertionError(c)
    ELSE LET l == GetLine(c, y)
         IN SetLine(c, y, SubSeq(l, 1, x) \o part \o SubSeq(l, x + Len(part) + 1, Len(l)))

\* Canvas.set_at
SetAt(c, x, y, char) ==
    IF Len(char) # 1 THEN AssertionError(c) ELSE SetLinePart(c, y, x, char)

\* str.split("\n"): the lines of a text ("" gives one empty line).
RECURSIVE SplitLines(_)
SplitLines(text) ==
    IF \A k \in 1..Len(text) : text[k] # "\n" THEN <<text>>
    ELSE LET k == CHOOSE j \in 1..Len(text) :
                      text[j] = "\n" /\ \A m \in 1..(j - 1) : text[m] # "\n"
         IN <<SubSeq(text, 1, k - 1)>> \o SplitLines(SubSeq(text, k + 1, Len(text)))

\* Canvas.split_text, lines 49-59: what the generator yields from line k of
\* lines on, the rest of that line being line, at (x, y).
RECURSIVE YieldsNoReset(_, _, _, _, _, _)
YieldsNoReset(c, lines, k, line, x, y) ==
    LET pw == Min(c.w - x, Len(line))
        part == [x |-> x, y |-> y, part |-> SubSeq(line, 1, pw)]
        rest == SubSeq(line, pw + 1, Len(line))
    IN IF y + 1 >= c.h THEN <<part>>
       ELSE IF rest # <<>> THEN <<part>> \o YieldsNoReset(c, lines, k, rest, x, y + 1)
       ELSE IF k < Len(lines) THEN <<part>> \o YieldsNoReset(c, lines, k + 1, lines[k + 1], x, y + 1)
       ELSE <<part>>

RECURSIVE Yields(_, _, _, _, _, _)
Yields(c, lines, k, line, x, y) ==
    LET pw == Min(c.w - x, Len(line))
        part == [x |-> x, y |-> y, part |-> SubSeq(line, 1, pw)]
        rest == SubSeq(line, pw + 1, Len(line))
    IN IF y + 1 >= c.h THEN <<part>>
       ELSE IF rest # <<>> THEN <<part>> \o Yields(c, lines, k, rest, 0, y + 1)
       ELSE IF k < Len(lines) THEN <<part>> \o Yields(c, lines, k + 1, lines[k + 1], 0, y + 1)
       ELSE <<part>>

\* Canvas.split_text: the asserts hold.
SplitTextOk(c, x, y) == 0 <= x /\ x < c.w /\ 0 <= y /\ y < c.h

SplitText(c, x, y, text) ==
    LET lines == SplitLines(text)
    IN Yields(c, lines, 1, lines[1], x, y)

\* Canvas.write_at: set_line_part for each part the generator yields, up to
\* the first that fails.
RECURSIVE WriteParts(_, _, _)
WriteParts(c, parts, k) ==
    IF k > Len(parts) THEN Returned(c)
    ELSE LET r == SetLinePart(c, parts[k].y, parts[k].x, parts[k].part)
         IN IF r.ok THEN WriteParts(r.cv, parts, k + 1) ELSE r

WriteAt(c, x, y, text) ==
    IF ~SplitTextOk(c, x, y) THEN AssertionError(c)
    ELSE WriteParts(c, SplitText(c, x, y, text), 1)

\* Canvas.fill, lines 106-107: set_line for each row from y on.
RECURSIVE FillRows(_, _, _)
FillRows(c, l, y) ==
    IF y >= c.h THEN Returned(c)
    ELSE LET r == SetLine(c, y, l)
         IN IF r.ok THEN FillRows(r.cv, l, y + 1) ELSE r

\* Canvas.fill
Fill(c, char) ==
    IF Len(char) # 1 THEN AssertionError(c) ELSE FillRows(c, Repeat(char[1], c.w), 0)

\* Canvas.clear
Clear(c) == Fill(c, <<DEFAULT_CHAR>>)

\* Canvas.blit_line_part; self is TRUE when src is the canvas itself.
BlitLinePart(c, src, self, y, src_y, x) ==
    LET s == IF self THEN c ELSE src
    IN IF ~(0 <= x /\ x < c.w) THEN AssertionError(c)
       ELSE IF ~(0 <= y /\ y < c.h) THEN AssertionError(c)
       ELSE IF ~(0 <= src_y /\ src_y <= s.h) THEN AssertionError(c)
       ELSE IF ~(0 <= src_y /\ src_y < s.h) THEN AssertionError(c)
       ELSE SetLinePart(c, y, x, GetLine(s, src_y))

\* Canvas.blit, lines 165-166: the rows of src from src_y on.
RECURSIVE BlitRowsSameRow(_, _, _, _, _, _)
BlitRowsSameRow(c, src, self, x, y, src_y) ==
    IF src_y >= src.h THEN Returned(c)
    ELSE LET r == BlitLinePart(c, src, self, y, src_y, x)
         IN IF r.ok THEN BlitRowsSameRow(r.cv, src, self, x, y, src_y + 1) ELSE r

RECURSIVE BlitRows(_, _, _, _, _, _)
BlitRows(c, src, self, x, y, src_y) ==
    IF src_y >= src.h THEN Returned(c)
    ELSE LET r == BlitLinePart(c, src, self, y + src_y, src_y, x)
         IN IF r.ok THEN BlitRows(r.cv, src, self, x, y, src_y + 1) ELSE r

\* Canvas.blit
Blit(c, src, self, x, y) ==
    IF ~(0 <= x /\ x < c.w) THEN AssertionError(c)
    ELSE IF ~(0 <= y /\ y < c.h) THEN AssertionError(c)
    ELSE IF ~(0 <= src.w /\ src.w <= c.w - x) THEN AssertionError(c)
    ELSE IF ~(0 <= src.h /\ src.h <= c.h - y) THEN AssertionError(c)
    ELSE BlitRows(c, src, self, x, y, 0)

\* Canvas.rect: the constructor's assert, then blit.
Rect(c, x, y, w, h, char) ==
    IF Len(char) # 1 THEN AssertionError(c)
    ELSE Blit(c, NewCanvas(w, h, char), FALSE, x, y)

\* ---- reads: each gives the value returned, or that an assert failed.
Value(v) == [val |-> v, ok |-> TRUE]
Raised == [val |-> <<>>, ok |-> FALSE]

\* Canvas.get_line, with its assert.
GetLineCall(c, y) ==
    IF ~(0 <= y /\ y < c.h) THEN Raised ELSE Value(c.data[y + 1])

\* Canvas.get_line_part
GetLinePart(c, y, x, w) ==
    IF w = 0 THEN Value(<<>>)
    ELSE IF ~(0 <= x /\ x < c.w) THEN Raised
    ELSE IF ~(0 <= y /\ y < c.h) THEN Raised
    ELSE IF ~(0 <= w /\ w <= c.w - x) THEN Raised
    ELSE Value(SubSeq(GetLine(c, y), x + 1, x + w))

\* Canvas.get_at
GetAt(c, x, y) == GetLinePart(c, y, x, 1)

\* ---- copies: each gives the canvas returned (new) and whether the call
\* returned.  new.same tells whether new.data is the very list object that is
\* the source's data, so that an item assignment to one shows in the other.
\* list.copy(): a new list object with the same items.
ListAlias(l) == [list |-> l, same |-> TRUE]

ListCopy(l) == [list |-> l, same |-> FALSE]

\* The canvas c as the object a call returns.
AsNew(c, same) ==
    [made |-> TRUE, w |-> c.w, h |-> c.h, data |-> c.data, same |-> same, styles |-> <<>>]
AsCanvas(n) == [w |-> n.w, h |-> n.h, data |-> n.data]
NotReturned == [new |-> NoNew, ok |-> FALSE]

\* Canvas.copy
Copy(c) ==
    LET d == ListCopy(c.data)
    IN [new |-> AsNew([w |-> c.w, h |-> c.h, data |-> d.list], d.same), ok |-> TRUE]

\* Canvas.copy_line_part
CopyLinePart(c, dest, y, dest_y, x) ==
    IF ~(0 <= x /\ x < c.w) THEN AssertionError(dest)
    ELSE IF ~(0 <= y /\ y < c.h) THEN AssertionError(dest)
    ELSE IF ~(0 <= dest_y /\ dest_y <= dest.w) THEN AssertionError(dest)
    ELSE LET part == GetLinePart(c, y, x, dest.w)
         IN IF ~part.ok THEN AssertionError(dest) ELSE SetLine(dest, dest_y, part.val)

\* Canvas.sub, lines 154-155: the rows of the region from new_y on.
RECURSIVE SubRows(_, _, _, _, _)
SubRows(c, dest, x, y, new_y) ==
    IF new_y >= dest.h THEN Returned(dest)
    ELSE LET r == CopyLinePart(c, dest, y + new_y, new_y, x)
         IN IF r.ok THEN SubRows(c, r.cv, x, y, new_y + 1) ELSE r

\* Canvas.sub
Sub(c, x, y, w, h) ==
    IF ~(0 <= x /\ x < c.w) THEN NotReturned
    ELSE IF ~(0 <= y /\ y < c.h) THEN NotReturned
    ELSE IF ~(0 <= w /\ w <= c.w - x) THEN NotReturned
    ELSE IF ~(0 <= h /\ h <= c.h - y) THEN NotReturned
    ELSE IF x = 0 /\ y = 0 /\ w = c.w /\ h = c.h THEN Copy(c)
    ELSE LET r == SubRows(c, NewCanvas(w, h, <<DEFAULT_CHAR>>), x, y, 0)
         IN IF r.ok THEN [new |-> AsNew(r.cv, FALSE), ok |-> TRUE] ELSE NotReturned

\* ---- StylizedCanvas: the canvas c with its grid of styles st.  Each
\* operation on the styles gives the grid it leaves and whether it returned.
DEFAULT_STYLE == 0

\* StylizedCanvas.__init__, line 182.
NewStyles(w, h, style) == Repeat(Repeat(style, w), h)

\* StylizedCanvas.set_style_line
SetStyleLine(c, st, y, style) ==
    IF ~(0 <= y /\ y < c.h) THEN [st |-> st, ok |-> FALSE]
    ELSE IF Len(style) # c.w THEN [st |-> st, ok |-> FALSE]
    ELSE [st |-> [st EXCEPT ![y + 1] = style], ok |-> TRUE]

\* StylizedCanvas.fill_style, lines 262-263: set_style_line for each row
\* from y on.
RECURSIVE FillStyleRows(_, _, _, _)
FillStyleRows(c, st, style, y) ==
    IF y >= c.h THEN [st |-> st, ok |-> TRUE]
    ELSE LET r == SetStyleLine(c, st, y, Repeat(style, c.w))
         IN IF r.ok THEN FillStyleRows(c, r.st, style, y + 1) ELSE r

FillStyle(c, st, style) == FillStyleRows(c, st, style, 0)

\* StylizedCanvas.clear_style
ClearStyleSkipped(c, st) == [st |-> st, ok |-> TRUE]

ClearStyle(c, st) == FillStyle(c, st, DEFAULT_STYLE)

\* StylizedCanvas.clear: super().clear(), then clear_style().
StylizedClear(c, st) ==
    LET r == Clear(c)
    IN IF ~r.ok THEN [cv |-> r.cv, st |-> st, ok |-> FALSE]
       ELSE LET q == ClearStyle(r.cv, st)
            IN [cv |-> r.cv, st |-> q.st, ok |-> q.ok]

\* StylizedCanvas.get_style_line_part
GetStyleLinePart(c, st, y, x, w) ==
    IF w = 0 THEN Value(<<>>)
    ELSE IF ~(0 <= x /\ x < c.w) THEN Raised
    ELSE IF ~(0 <= y /\ y < c.h) THEN Raised
    ELSE IF ~(0 <= w /\ w <= c.w - x) THEN Raised
    ELSE Value(SubSeq(st[y + 1], x + 1, x + w))

\* StylizedCanvas.get_style_at: element 0 of the part of one style.
GetStyleAt(c, st, x, y) ==
    LET r == GetStyleLinePart(c, st, y, x, 1)
    IN IF r.ok THEN Value(r.val[1]) ELSE Raised

\* ---- the inputs of the canvas calls
\* Strings of cells of length 0..n.
RECURSIVE StringsUpTo(_, _)
StringsUpTo(alphabet, n) ==
    IF n = 0 THEN {<<>>}
    ELSE LET shorter == StringsUpTo(alphabet, n - 1)
         IN shorter \cup {Append(t, a) : t \in shorter, a \in alphabet}

\* The char arguments: the one-character strings, the empty string and a
\* string of two characters.
CharArgs == StringsUpTo(Chars, 1) \cup {<<"a", "a">>}
Lines == StringsUpTo(Chars, MaxW + 1)
Texts == StringsUpTo(Chars \cup {"\n"}, MaxText)
Xs == -1..MaxW
Ys == -1..2

\* The canvases blit is handed: every canvas of up to 2 x 2 cells.
Sources ==
    UNION {{[w |-> w, h |-> h, data |-> d] : d \in [1..h -> [1..w -> Chars]]} :
              w \in 0..2, h \in 0..2}

\* ---- the calls: each leaves the canvas the operation gives and records
\* whether it returned.
CanvasSetAt(x, y, char) ==
    LET r == SetAt(canvas, x, y, char)
    IN /\ canvas' = r.cv
       /\ ok' = r.ok
       /\ UNCHANGED notCv

CanvasSetLine(y, line) ==
    LET r == SetLine(canvas, y, line)
    IN /\ canvas' = r.cv
       /\ ok' = r.ok
       /\ UNCHANGED notCv

CanvasSetLinePart(y, x, part) ==
    LET r == SetLinePart(canvas, y, x, part)
    IN /\ canvas' = r.cv
       /\ ok' = r.ok
       /\ UNCHANGED notCv

CanvasWriteAt(x, y, text) ==
    LET r == WriteAt(canvas, x, y, text)
    IN /\ canvas' = r.cv
       /\ ok' = r.ok
       /\ UNCHANGED notCv

CanvasFill(char) ==
    LET r == Fill(canvas, char)
    IN /\ canvas' = r.cv
       /\ ok' = r.ok
       /\ UNCHANGED notCv

CanvasClear ==
    LET r == Clear(canvas)
    IN /\ canvas' = r.cv
       /\ ok' = r.ok
       /\ UNCHANGED notCv

CanvasBlit(src, x, y) ==
    LET r == Blit(canvas, src, FALSE, x, y)
    IN /\ canvas' = r.cv
       /\ ok' = r.ok
       /\ UNCHANGED notCv

CanvasBlitSelf(x, y) ==
    LET r == Blit(canvas, canvas, TRUE, x, y)
    IN /\ canvas' = r.cv
       /\ ok' = r.ok
       /\ UNCHANGED notCv

CanvasRect(x, y, w, h, char) ==
    LET r == Rect(canvas, x, y, w, h, char)
    IN /\ canvas' = r.cv
       /\ ok' = r.ok
       /\ UNCHANGED notCv

\* The state after Canvas(w, h, char); no event machinery is running.
InitCanvas ==
    /\ \E w \in 0..MaxW, h \in Heights, char \in Chars :
           canvas = NewCanvas(w, h, <<char>>)
    /\ ok = TRUE
    /\ event_queue = <<>>
    /\ listeners = <<>>
    /\ ANY_EVENTS = FALSE
    /\ pc = "idle"
    /\ limit = 0
    /\ i = 0
    /\ ret = -1
    /\ event = NoEvent
    /\ snap = <<>>
    /\ mi = 1
    /\ li = 1
    /\ cpend = NoEvent
    /\ ppend = NoEvent
    /\ produced = 0
    /\ registered = <<>>
    /\ appended = <<>>
    /\ dispatched = <<>>
    /\ calls = <<>>
    /\ fired = [c \in Callbacks \cup {0} |-> 0]
    /\ quiet = TRUE
    /\ startLen = 0
    /\ startEmpty = TRUE
    /\ CallAtRest
    /\ TermAtRest

NextCanvas ==
    \/ \E x \in Xs, y \in Ys, char \in CharArgs : CanvasSetAt(x, y, char)
    \/ \E y \in Ys, line \in Lines : CanvasSetLine(y, line)
    \/ \E y \in Ys, x \in Xs, part \in Lines : CanvasSetLinePart(y, x, part)
    \/ \E x \in Xs, y \in Ys, text \in Texts : CanvasWriteAt(x, y, text)
    \/ \E char \in CharArgs : CanvasFill(char)
    \/ CanvasClear
    \/ \E src \in Sources, x \in Xs, y \in Ys : CanvasBlit(src, x, y)
    \/ \E x \in Xs, y \in Ys : CanvasBlitSelf(x, y)
    \/ \E x \in Xs, y \in Ys, w \in RectDims, h \in RectDims, char \in CharArgs :
           CanvasRect(x, y, w, h, char)

SpecCanvas == InitCanvas /\ [][NextCanvas]_vars

\* ------------------------------------------------------- canvas calls
\* Every canvas the program can hold within the bounds: any content can be
\* written row by row with set_line.  The styles a cell can carry.
Canvases ==
    UNION {{[w |-> w, h |-> h, data |-> d] : d \in [1..h -> [1..w -> Chars]]} :
              w \in 0..MaxW, h \in Heights}
StyleVals == {DEFAULT_STYLE, 1}

\* One call is made on each canvas: the canvases before it range over every
\* content, so a second call would start from a state already covered.
\* ---- clear(): on a Canvas (no styles) and on a StylizedCanvas.
CallClear ==
    /\ call.op = "none"
    /\ styles = <<>>
    /\ LET r == Clear(canvas)
       IN /\ canvas' = r.cv
          /\ ok' = r.ok
    /\ call' = [NoCall EXCEPT !.op = "clear", !.before = canvas, !.st = styles]
    /\ UNCHANGED <<styles, new, notCall>>

CallStylizedClear ==
    /\ call.op = "none"
    /\ Len(styles) = canvas.h
    /\ LET r == StylizedClear(canvas, styles)
       IN /\ canvas' = r.cv
          /\ styles' = r.st
          /\ ok' = r.ok
    /\ call' = [NoCall EXCEPT !.op = "stylized_clear", !.before = canvas, !.st = styles]
    /\ UNCHANGED <<new, notCall>>

\* A Canvas or a StylizedCanvas with any content.
InitClear ==
    /\ canvas \in Canvases
    /\ styles \in {<<>>} \cup [1..canvas.h -> [1..canvas.w -> StyleVals]]
    /\ ok = TRUE
    /\ new = NoNew
    /\ call = NoCall
    /\ EvAtRest
    /\ TermAtRest

NextClear == CallClear \/ CallStylizedClear

SpecClear == InitClear /\ [][NextClear]_vars

\* ---- write_at(x, y, text) on a canvas with any content.
CallWriteAt(x, y, text) ==
    /\ call.op = "none"
    /\ LET r == WriteAt(canvas, x, y, text)
       IN /\ canvas' = r.cv
          /\ ok' = r.ok
    /\ call' = [NoCall EXCEPT !.op = "write_at", !.x = x, !.y = y, !.text = text,
                              !.before = canvas]
    /\ UNCHANGED <<styles, new, notCall>>

InitCall ==
    /\ canvas \in Canvases
    /\ ok = TRUE
    /\ CallAtRest
    /\ EvAtRest
    /\ TermAtRest

NextWrite == \E x \in Xs, y \in Ys, text \in Texts : CallWriteAt(x, y, text)

SpecWrite == InitCall /\ [][NextWrite]_vars

\* ---- sub(x, y, w, h), then one mutation of the canvas it returned (New...)
\* or of the source (Src...).  An item assignment to a data list shows in the
\* other canvas when both hold the same list object.
CallSub(x, y, w, h) ==
    /\ call.op = "none"
    /\ LET r == Sub(canvas, x, y, w, h)
       IN /\ new' = r.new
          /\ ok' = r.ok
    /\ call' = [NoCall EXCEPT !.op = "sub", !.x = x, !.y = y, !.w = w, !.h = h,
                              !.before = canvas]
    /\ UNCHANGED <<canvas, styles, notCall>>

NewSetAt(x, y, char) ==
    /\ call.op = "sub" /\ ok
    /\ LET r == SetAt(AsCanvas(new), x, y, char)
       IN /\ ok' = r.ok
          /\ new' = [new EXCEPT !.data = r.cv.data]
          /\ canvas' = IF new.same THEN [canvas EXCEPT !.data = r.cv.data] ELSE canvas
    /\ call' = [call EXCEPT !.op = "mutate_new", !.before = canvas, !.src = AsCanvas(new)]
    /\ UNCHANGED <<styles, notCall>>

NewWriteAt(x, y, text) ==
    /\ call.op = "sub" /\ ok
    /\ LET r == WriteAt(AsCanvas(new), x, y, text)
       IN /\ ok' = r.ok
          /\ new' = [new EXCEPT !.data = r.cv.data]
          /\ canvas' = IF new.same THEN [canvas EXCEPT !.data = r.cv.data] ELSE canvas
    /\ call' = [call EXCEPT !.op = "mutate_new", !.before = canvas, !.src = AsCanvas(new)]
    /\ UNCHANGED <<styles, notCall>>

NewFill(char) ==
    /\ call.op = "sub" /\ ok
    /\ LET r == Fill(AsCanvas(new), char)
       IN /\ ok' = r.ok
          /\ new' = [new EXCEPT !.data = r.cv.data]
          /\ canvas' = IF new.same THEN [canvas EXCEPT !.data = r.cv.data] ELSE canvas
    /\ call' = [call EXCEPT !.op = "mutate_new", !.before = canvas, !.src = AsCanvas(new)]
    /\ UNCHANGED <<styles, notCall>>

NewBlit(src, x, y) ==
    /\ call.op = "sub" /\ ok
    /\ LET r == Blit(AsCanvas(new), src, FALSE, x, y)
       IN /\ ok' = r.ok
          /\ new' = [new EXCEPT !.data = r.cv.data]
          /\ canvas' = IF new.same THEN [canvas EXCEPT !.data = r.cv.data] ELSE canvas
    /\ call' = [call EXCEPT !.op = "mutate_new", !.before = canvas, !.src = AsCanvas(new)]
    /\ UNCHANGED <<styles, notCall>>

SrcSetAt(x, y, char) ==
    /\ call.op = "sub" /\ ok
    /\ LET r == SetAt(canvas, x, y, char)
       IN /\ ok' = r.ok
          /\ canvas' = r.cv
          /\ new' = IF new.same THEN [new EXCEPT !.data = r.cv.data] ELSE new
    /\ call' = [call EXCEPT !.op = "mutate_src", !.before = canvas, !.src = AsCanvas(new)]
    /\ UNCHANGED <<styles, notCall>>

SrcWriteAt(x, y, text) ==
    /\ call.op = "sub" /\ ok
    /\ LET r == WriteAt(canvas, x, y, text)
       IN /\ ok' = r.ok
          /\ canvas' = r.cv
          /\ new' = IF new.same THEN [new EXCEPT !.data = r.cv.data] ELSE new
    /\ call' = [call EXCEPT !.op = "mutate_src", !.before = canvas, !.src = AsCanvas(new)]
    /\ UNCHANGED <<styles, notCall>>

SrcFill(char) ==
    /\ call.op = "sub" /\ ok
    /\ LET r == Fill(canvas, char)
       IN /\ ok' = r.ok
          /\ canvas' = r.cv
          /\ new' = IF new.same THEN [new EXCEPT !.data = r.cv.data] ELSE new
    /\ call' = [call EXCEPT !.op = "mutate_src", !.before = canvas, !.src = AsCanvas(new)]
    /\ UNCHANGED <<styles, notCall>>

SrcBlit(src, x, y) ==
    /\ call.op = "sub" /\ ok
    /\ LET r == Blit(canvas, src, FALSE, x, y)
       IN /\ ok' = r.ok
          /\ canvas' = r.cv
          /\ new' = IF new.same THEN [new EXCEPT !.data = r.cv.data] ELSE new
    /\ call' = [call EXCEPT !.op = "mutate_src", !.before = canvas, !.src = AsCanvas(new)]
    /\ UNCHANGED <<styles, notCall>>

\* The arguments of the mutations and of sub.
MutAt == 0..1
MutTexts == StringsUpTo(Chars, 2)
MutSources == {NewCanvas(w, h, <<"a">>) : w \in 1..2, h \in 1..2}

NextSub ==
    \/ \E x \in MutAt, y \in MutAt, w \in 0..MaxW, h \in Heights : CallSub(x, y, w, h)
    \/ \E x \in MutAt, y \in MutAt, char \in Chars : NewSetAt(x, y, <<char>>)
    \/ \E x \in MutAt, y \in MutAt, text \in MutTexts : NewWriteAt(x, y, text)
    \/ \E char \in Chars : NewFill(<<char>>)
    \/ \E src \in MutSources, x \in MutAt, y \in MutAt : NewBlit(src, x, y)
    \/ \E x \in MutAt, y \in MutAt, char \in Chars : SrcSetAt(x, y, <<char>>)
    \/ \E x \in MutAt, y \in MutAt, text \in MutTexts : SrcWriteAt(x, y, text)
    \/ \E char \in Chars : SrcFill(<<char>>)
    \/ \E src \in MutSources, x \in MutAt, y \in MutAt : SrcBlit(src, x, y)

SpecSub == InitCall /\ [][NextSub]_vars

\* ---- blit(src, x, y) of another canvas and of the canvas itself.
CallBlit(src, x, y) ==
    /\ call.op = "none"
    /\ LET r == Blit(canvas, src, FALSE, x, y)
       IN /\ canvas' = r.cv
          /\ ok' = r.ok
    /\ call' = [NoCall EXCEPT !.op = "blit", !.x = x, !.y = y, !.src = src,
                              !.before = canvas]
    /\ UNCHANGED <<styles, new, notCall>>

CallBlitSelf(x, y) ==
    /\ call.op = "none"
    /\ LET r == Blit(canvas, canvas, TRUE, x, y)
       IN /\ canvas' = r.cv
          /\ ok' = r.ok
    /\ call' = [NoCall EXCEPT !.op = "blit_self", !.x = x, !.y = y, !.src = canvas,
                              !.before = canvas]
    /\ UNCHANGED <<styles, new, notCall>>

NextBlit ==
    \/ \E src \in Sources, x \in Xs, y \in Ys : CallBlit(src, x, y)
    \/ \E x \in Xs, y \in Ys : CallBlitSelf(x, y)

SpecBlit == InitCall /\ [][NextBlit]_vars

\* ---- the cell, line and line-part reads and writes, in and out of bounds.
CallGetAt(x, y) ==
    /\ call.op = "none"
    /\ LET r == GetAt(canvas, x, y)
       IN /\ ok' = r.ok
          /\ call' = [NoCall EXCEPT !.op = "get_at", !.x = x, !.y = y,
                                    !.before = canvas, !.out = r.val]
    /\ UNCHANGED <<canvas, styles, new, notCall>>

CallSetAt(x, y, char) ==
    /\ call.op = "none"
    /\ LET r == SetAt(canvas, x, y, char)
       IN /\ canvas' = r.cv
          /\ ok' = r.ok
    /\ call' = [NoCall EXCEPT !.op = "set_at", !.x = x, !.y = y, !.text = char,
                              !.before = canvas]
    /\ UNCHANGED <<styles, new, notCall>>

CallGetLine(y) ==
    /\ call.op = "none"
    /\ LET r == GetLineCall(canvas, y)
       IN /\ ok' = r.ok
          /\ call' = [NoCall EXCEPT !.op = "get_line", !.y = y,
                                    !.before = canvas, !.out = r.val]
    /\ UNCHANGED <<canvas, styles, new, notCall>>

CallSetLine(y, line) ==
    /\ call.op = "none"
    /\ LET r == SetLine(canvas, y, line)
       IN /\ canvas' = r.cv
          /\ ok' = r.ok
    /\ call' = [NoCall EXCEPT !.op = "set_line", !.y = y, !.text = line,
                              !.before = canvas]
    /\ UNCHANGED <<styles, new, notCall>>

CallGetLinePart(y, x, w) ==
    /\ call.op = "none"
    /\ LET r == GetLinePart(canvas, y, x, w)
       IN /\ ok' = r.ok
          /\ call' = [NoCall EXCEPT !.op = "get_line_part", !.x = x, !.y = y, !.w = w,
                                    !.before = canvas, !.out = r.val]
    /\ UNCHANGED <<canvas, styles, new, notCall>>

CallSetLinePart(y, x, part) ==
    /\ call.op = "none"
    /\ LET r == SetLinePart(canvas, y, x, part)
       IN /\ canvas' = r.cv
          /\ ok' = r.ok
    /\ call' = [NoCall EXCEPT !.op = "set_line_part", !.x = x, !.y = y, !.text = part,
                              !.before = canvas]
    /\ UNCHANGED <<styles, new, notCall>>

\* The widths get_line_part is asked for.
Widths == -1..(MaxW + 1)

NextAccess ==
    \/ \E x \in Xs, y \in Ys : CallGetAt(x, y)
    \/ \E x \in Xs, y \in Ys, char \in CharArgs : CallSetAt(x, y, char)
    \/ \E y \in Ys : CallGetLine(y)
    \/ \E y \in Ys, line \in Lines : CallSetLine(y, line)
    \/ \E y \in Ys, x \in Xs, w \in Widths : CallGetLinePart(y, x, w)
    \/ \E y \in Ys, x \in Xs, part \in Lines : CallSetLinePart(y, x, part)

SpecAccess == InitCall /\ [][NextAccess]_vars

\* ---------------------------------------------------------------- draw
\* src/terminal.py, the output side.  sys.stdout is the sequence of what was
\* written: characters one by one, a control sequence as one item.
CSI == "ESC["

\* write(s), lines 162-165, and Terminal.write, lines 661-664 (NO_UNDERLINE
\* is False): the characters of text follow what was written.
Write(out, text) == out \o text

\* Terminal.clear_to_end_of_line
ClearToEndOfLine(out) == Write(out, <<CSI \o "0K">>)

\* Terminal.write_line
WriteLine(out, line) == Write(out, line \o <<"\r", "\n">>)

\* str.rstrip(): the string without its trailing whitespace characters.
IsSpace(ch) == ch \in {" ", "\t", "\n", "\r"}

RECURSIVE RStrip(_)
RStrip(line) ==
    IF line # <<>> /\ IsSpace(line[Len(line)])
    THEN RStrip(SubSeq(line, 1, Len(line) - 1))
    ELSE line

\* Canvas.draw, lines 21-29: the rows from row k on.
RECURSIVE DrawRows(_, _, _)
DrawRows(c, out, k) ==
    IF k > Len(c.data) THEN out
    ELSE LET line == c.data[k]
             l == RStrip(line)
             o1 == Write(out, l)
             o2 == IF Len(l) # Len(line) THEN ClearToEndOfLine(o1) ELSE o1
         IN DrawRows(c, WriteLine(o2, <<>>), k + 1)

\* Canvas.draw
Draw(c, out) == DrawRows(c, out, 1)

\* The characters a cell can hold when it is drawn: set_at takes any string
\* of one character.
DrawChars == Chars \cup {"\t"}
DrawCanvases ==
    UNION {{[w |-> w, h |-> h, data |-> d] : d \in [1..h -> [1..w -> DrawChars]]} :
              w \in 0..MaxW, h \in Heights}

CallDraw ==
    /\ call.op = "none"
    /\ stdout' = Draw(canvas, stdout)
    /\ call' = [NoCall EXCEPT !.op = "draw", !.before = canvas]
    /\ UNCHANGED <<canvas, ok, styles, new, evVars, term, inVars, lifeVars, access>>

InitDraw ==
    /\ canvas \in DrawCanvases
    /\ ok = TRUE
    /\ CallAtRest
    /\ EvAtRest
    /\ TermAtRest

NextDraw == CallDraw

SpecDraw == InitDraw /\ [][NextDraw]_vars

\* ------------------------------------------------------- terminal properties
\* Terminal.get_prop
GetProp(t, name) == t.props[name]

\* Terminal.set_prop: the terminal it leaves and the bool it returns.
SetPropAlways(t, name, value) ==
    [t |-> [t EXCEPT !.props[name] = value], changed |-> TRUE]

SetProp(t, name, value) ==
    IF GetProp(t, name) = value THEN [t |-> t, changed |-> FALSE]
    ELSE [t |-> [t EXCEPT !.props[name] = value], changed |-> TRUE]

\* Terminal.reset
Reset(t, out) ==
    IF t.current_style = 0 THEN [t |-> t, out |-> out]
    ELSE [t |-> [t EXCEPT !.current_style = 0], out |-> Write(out, <<CSI \o "0m">>)]

\* Terminal.enable_mouse_tracking, the decorated function.
EnableMouseTracking(t, out) == [t |-> t, out |-> Write(out, <<CSI \o "?1002h">>)]

\* Terminal.disable_mouse_tracking, the decorated function.
DisableMouseTracking(t, out) == [t |-> t, out |-> Write(out, <<CSI \o "?1002l">>)]

\* Terminal.enable_bracketed_paste, the decorated function.
EnableBracketedPaste(t, out) == [t |-> t, out |-> Write(out, <<CSI \o "?2004h">>)]

\* Terminal.disable_bracketed_paste, the decorated function.
DisableBracketedPaste(t, out) == [t |-> t, out |-> Write(out, <<CSI \o "?2004l">>)]

\* Terminal.set_cursor_visible, the decorated function.
SetCursorVisible(t, out) == [t |-> t, out |-> Write(out, <<CSI \o "?25h">>)]

\* Terminal.set_cursor_invisible, the decorated function.
SetCursorInvisible(t, out) == [t |-> t, out |-> Write(out, <<CSI \o "?25l">>)]

\* Terminal.enable_alternative_screen, the decorated function:
\* save_cursor_pos, the mode, reset, clear_screen.
EnableAlternativeScreen(t, out) ==
    LET o1 == Write(out, <<CSI \o "s">>)
        o2 == Write(o1, <<CSI \o "?1049h">>)
        r == Reset(t, o2)
    IN [t |-> r.t, out |-> Write(r.out, <<CSI \o "2J">>)]

\* Terminal.disable_alternative_screen, the decorated function: the mode,
\* restore_cursor_pos.
DisableAlternativeScreen(t, out) ==
    [t |-> t, out |-> Write(Write(out, <<CSI \o "?1049l">>), <<CSI \o "u">>)]

\* The functions term_prop decorates, by name.
Decorated(func, t, out) ==
    CASE func = "enable_mouse_tracking" -> EnableMouseTracking(t, out)
      [] func = "disable_mouse_tracking" -> DisableMouseTracking(t, out)
      [] func = "enable_bracketed_paste" -> EnableBracketedPaste(t, out)
      [] func = "disable_bracketed_paste" -> DisableBracketedPaste(t, out)
      [] func = "set_cursor_visible" -> SetCursorVisible(t, out)
      [] func = "set_cursor_invisible" -> SetCursorInvisible(t, out)
      [] func = "enable_alternative_screen" -> EnableAlternativeScreen(t, out)
      [] func = "disable_alternative_screen" -> DisableAlternativeScreen(t, out)

\* Terminal.term_prop, lines 268-270: the wrapper around the decorated
\* function func.
TermProp(t, out, name, value, force, func) ==
    LET sp == SetProp(t, name, value)
    IN IF sp.changed \/ force THEN Decorated(func, sp.t, out) ELSE [t |-> sp.t, out |-> out]

\* ---- the calls.  stdout is what the call wrote: the output is observed
\* call by call.
CallEnableMouseTracking(force) ==
    /\ LET r == TermProp(term, <<>>, "mouse_tracking", "True", force, "enable_mouse_tracking")
       IN /\ term' = r.t
          /\ stdout' = r.out
    /\ call' = [NoCall EXCEPT !.op = "enable_mouse_tracking", !.name = "mouse_tracking", !.value = "True",
                              !.force = force, !.t = term]
    /\ UNCHANGED <<inVars, lifeVars, access, styles, new, evVars, cvVars>>

CallDisableMouseTracking(force) ==
    /\ LET r == TermProp(term, <<>>, "mouse_tracking", "False", force, "disable_mouse_tracking")
       IN /\ term' = r.t
          /\ stdout' = r.out
    /\ call' = [NoCall EXCEPT !.op = "disable_mouse_tracking", !.name = "mouse_tracking", !.value = "False",
                              !.force = force, !.t = term]
    /\ UNCHANGED <<inVars, lifeVars, access, styles, new, evVars, cvVars>>

CallEnableBracketedPaste(force) ==
    /\ LET r == TermProp(term, <<>>, "bracketed_paste", "True", force, "enable_bracketed_paste")
       IN /\ term' = r.t
          /\ stdout' = r.out
    /\ call' = [NoCall EXCEPT !.op = "enable_bracketed_paste", !.name = "bracketed_paste", !.value = "True",
                              !.force = force, !.t = term]
    /\ UNCHANGED <<inVars, lifeVars, access, styles, new, evVars, cvVars>>

CallDisableBracketedPaste(force) ==
    /\ LET r == TermProp(term, <<>>, "bracketed_paste", "False", force, "disable_bracketed_paste")
       IN /\ term' = r.t
          /\ stdout' = r.out
    /\ call' = [NoCall EXCEPT !.op = "disable_bracketed_paste", !.name = "bracketed_paste", !.value = "False",
                              !.force = force, !.t = term]
    /\ UNCHANGED <<inVars, lifeVars, access, styles, new, evVars, cvVars>>

CallSetCursorVisible(force) ==
    /\ LET r == TermProp(term, <<>>, "cursor_visible", "True", force, "set_cursor_visible")
       IN /\ term' = r.t
          /\ stdout' = r.out
    /\ call' = [NoCall EXCEPT !.op = "set_cursor_visible", !.name = "cursor_visible", !.value = "True",
                              !.force = force, !.t = term]
    /\ UNCHANGED <<inVars, lifeVars, access, styles, new, evVars, cvVars>>

CallSetCursorInvisible(force) ==
    /\ LET r == TermProp(term, <<>>, "cursor_visible", "False", force, "set_cursor_invisible")
       IN /\ term' = r.t
          /\ stdout' = r.out
    /\ call' = [NoCall EXCEPT !.op = "set_cursor_invisible", !.name = "cursor_visible", !.value = "False",
                              !.force = force, !.t = term]
    /\ UNCHANGED <<inVars, lifeVars, access, styles, new, evVars, cvVars>>

CallEnableAlternativeScreen(force) ==
    /\ LET r == TermProp(term, <<>>, "alternative_screen", "True", force, "enable_alternative_screen")
       IN /\ term' = r.t
          /\ stdout' = r.out
    /\ call' = [NoCall EXCEPT !.op = "enable_alternative_screen", !.name = "alternative_screen", !.value = "True",
                              !.force = force, !.t = term]
    /\ UNCHANGED <<inVars, lifeVars, access, styles, new, evVars, cvVars>>

CallDisableAlternativeScreen(force) ==
    /\ LET r == TermProp(term, <<>>, "alternative_screen", "False", force, "disable_alternative_screen")
       IN /\ term' = r.t
          /\ stdout' = r.out
    /\ call' = [NoCall EXCEPT !.op = "disable_alternative_screen", !.name = "alternative_screen", !.value = "False",
                              !.force = force, !.t = term]
    /\ UNCHANGED <<inVars, lifeVars, access, styles, new, evVars, cvVars>>

NextProps ==
    \/ \E force \in BOOLEAN : CallEnableMouseTracking(force)
    \/ \E force \in BOOLEAN : CallDisableMouseTracking(force)
    \/ \E force \in BOOLEAN : CallEnableBracketedPaste(force)
    \/ \E force \in BOOLEAN : CallDisableBracketedPaste(force)
    \/ \E force \in BOOLEAN : CallSetCursorVisible(force)
    \/ \E force \in BOOLEAN : CallSetCursorInvisible(force)
    \/ \E force \in BOOLEAN : CallEnableAlternativeScreen(force)
    \/ \E force \in BOOLEAN : CallDisableAlternativeScreen(force)

InitProps ==
    /\ CanvasAtRest
    /\ CallAtRest
    /\ EvAtRest
    /\ TermAtRest

SpecProps == InitProps /\ [][NextProps]_vars

\* ------------------------------------------------------------------ styles
\* int & int, int | int and a & ~b on the non-negative ints that are styles.
RECURSIVE BitAnd(_, _)
BitAnd(a, b) ==
    IF a = 0 \/ b = 0 THEN 0
    ELSE (a % 2) * (b % 2) + 2 * BitAnd(a \div 2, b \div 2)

RECURSIVE BitOr(_, _)
BitOr(a, b) ==
    IF a = 0 THEN b
    ELSE IF b = 0 THEN a
    ELSE (IF a % 2 = 1 \/ b % 2 = 1 THEN 1 ELSE 0) + 2 * BitOr(a \div 2, b \div 2)

RECURSIVE BitAndNot(_, _)
BitAndNot(a, b) ==
    IF a = 0 THEN 0
    ELSE (a % 2) * (1 - (b % 2)) + 2 * BitAndNot(a \div 2, b \div 2)

\* Terminal.STYLES, lines 200-229, in the order of the dict: the attributes
\* (the sixteen colours follow in the source).
STYLES ==
    <<[s |-> 1, code |-> "1"], [s |-> 2, code |-> "2"], [s |-> 4, code |-> "3"],
      [s |-> 8, code |-> "4"], [s |-> 16, code |-> "5"], [s |-> 32, code |-> "7"]>>

\* The entries of STYLES within the bound, and a bit that is in no entry
\* (1 << 6).
KnownStyles == SubSeq(STYLES, 1, MaxStyles)
UnknownBit == 64

\* Terminal.add_style, lines 339-348: the loop over STYLES from entry k on.
RECURSIVE AddStyleFrom(_, _, _, _)
AddStyleFrom(t, out, style, k) ==
    IF k > Len(KnownStyles) THEN [t |-> t, out |-> out]
    ELSE LET e == KnownStyles[k]
         IN IF BitAnd(style, e.s) = 0 THEN AddStyleFrom(t, out, style, k + 1)
            ELSE IF BitAnd(t.current_style, e.s) # 0 THEN AddStyleFrom(t, out, style, k + 1)
            ELSE AddStyleFrom([t EXCEPT !.current_style = BitOr(@, e.s)],
                              Write(out, <<CSI \o e.code \o "m">>), style, k + 1)

\* Terminal.add_style
AddStyle(t, out, style) ==
    LET r == IF t.current_style = None THEN Reset(t, out) ELSE [t |-> t, out |-> out]
    IN AddStyleFrom(r.t, r.out, style, 1)

SetStyleNeverReset(t, out, style) ==
    AddStyle(t, out, style)

\* Terminal.set_style
SetStyle(t, out, style) ==
    LET r == IF t.current_style = None THEN Reset(t, out)
             ELSE IF BitAndNot(t.current_style, style) # 0 THEN Reset(t, out)
             ELSE [t |-> t, out |-> out]
    IN AddStyle(r.t, r.out, style)

\* The styles asked for: every combination of the known bits and the unknown.
RECURSIVE Masks(_)
Masks(k) ==
    IF k = 0 THEN {0, UnknownBit}
    ELSE Masks(k - 1) \cup {BitOr(m, KnownStyles[k].s) : m \in Masks(k - 1)}

StyleArgs == Masks(Len(KnownStyles))

\* ---- the calls.  stdout is what the call wrote.
CallSetStyle(style) ==
    /\ LET r == SetStyle(term, <<>>, style)
       IN /\ term' = r.t
          /\ stdout' = r.out
    /\ call' = [NoCall EXCEPT !.op = "set_style", !.style = style, !.t = term]
    /\ UNCHANGED <<inVars, lifeVars, access, styles, new, evVars, cvVars>>

CallAddStyle(style) ==
    /\ LET r == AddStyle(term, <<>>, style)
       IN /\ term' = r.t
          /\ stdout' = r.out
    /\ call' = [NoCall EXCEPT !.op = "add_style", !.style = style, !.t = term]
    /\ UNCHANGED <<inVars, lifeVars, access, styles, new, evVars, cvVars>>

CallReset ==
    /\ LET r == Reset(term, <<>>)
       IN /\ term' = r.t
          /\ stdout' = r.out
    /\ call' = [NoCall EXCEPT !.op = "reset", !.t = term]
    /\ UNCHANGED <<inVars, lifeVars, access, styles, new, evVars, cvVars>>

NextStyle ==
    \/ \E style \in StyleArgs : CallSetStyle(style)
    \/ \E style \in StyleArgs : CallAddStyle(style)
    \/ CallReset

SpecStyle == InitProps /\ [][NextStyle]_vars

\* ------------------------------------------------------------------ input
\* sys.stdin in raw mode delivers bytes; get_key() makes each a str of one
\* character.  A printable character is itself; ESC is chr(27) and GRAVE is
\* chr(96).
ESC == "ESC"

\* The characters chr(32) .. chr(126), in order.
Printable ==
    <<
      " ", "!", "\"", "#", "$", "%", "&", "'", "(", ")", "*", "+", ",", "-", ".", "/",
      "0", "1", "2", "3", "4", "5", "6", "7", "8", "9", ":", ";", "<", "=", ">", "?",
      "@", "A", "B", "C", "D", "E", "F", "G", "H", "I", "J", "K", "L", "M", "N", "O",
      "P", "Q", "R", "S", "T", "U", "V", "W", "X", "Y", "Z", "[", "\\", "]", "^", "_",
      "GRAVE", "a", "b", "c", "d", "e", "f", "g", "h", "i", "j", "k", "l", "m", "n", "o",
      "p", "q", "r", "s", "t", "u", "v", "w", "x", "y", "z", "{", "|", "}", "~"
    >>

\* ord(c)
Ord(c) ==
    CASE c = ESC -> 27
      [] c = "\r" -> 13
      [] c = "\n" -> 10
      [] OTHER -> 31 + (CHOOSE k \in 1..Len(Printable) : Printable[k] = c)

\* str.isalpha(), str.isdecimal(), str.upper() and int(s) on what get_key gives.
IsAlpha(c) == Ord(c) \in (65..90) \cup (97..122)

IsDecimal(s) == s # <<>> /\ \A k \in 1..Len(s) : Ord(s[k]) \in 48..57

Upper(c) == IF Ord(c) \in 97..122 THEN Printable[Ord(c) - 32 - 31] ELSE c

RECURSIVE ParseInt(_)
ParseInt(s) ==
    IF s = <<>> THEN 0
    ELSE 10 * ParseInt(SubSeq(s, 1, Len(s) - 1)) + (Ord(s[Len(s)]) - 48)

\* terminal.py, lines 39-75; None is written as Python prints it.
KEYS ==
    <<"home", "insert", "delete", "end", "pageup", "pagedown", "home", "end",
      Unset, Unset, "f1", "f2", "f3", "f4", "f5", Unset,
      "f6", "f7", "f8", "f9", "f10", Unset, "f11", "f12", "f13", "f14", Unset,
      "f15", "f16", Unset, "f17", "f18", "f19", "f20", Unset>>

\* terminal.py, lines 76-81.
SS3_KEYS == [c \in {"P", "Q", "R", "S"} |->
                CASE c = "P" -> "f1" [] c = "Q" -> "f2" [] c = "R" -> "f3" [] c = "S" -> "f4"]

\* terminal.py, line 83: 0.4 s, in the unit of clock (0.2 s).
ALT_TIMEOUT == 2

IndexFromOne(l, k) == IF k <= 0 THEN l[Len(l) + k] ELSE l[k]

\* list[k] for a Python index k, which counts from the end when negative.
Index(l, k) == IF k < 0 THEN l[Len(l) + k + 1] ELSE l[k + 1]

\* MouseEvent.__init__ (src/event/event.py, lines 91-99): the arguments, and a
\* flag for each entry of MODIFIERS.
MouseEvent(button, x, y, modifiers) ==
    [type |-> "mouse", args |-> <<button, x, y, modifiers>>,
     button |-> button, x |-> x, y |-> y,
     shift |-> BitAnd(modifiers, 4) # 0,
     alt |-> BitAnd(modifiers, 8) # 0,
     meta |-> BitAnd(modifiers, 8) # 0,
     ctrl |-> BitAnd(modifiers, 16) # 0,
     hold |-> BitAnd(modifiers, 32) # 0]

\* BaseEvent.load(event, args): the event of that type with those arguments;
\* KeyEvent(key, alt=False).
Load(type, args) ==
    IF type = "mouse" THEN MouseEvent(args[1], args[2], args[3], args[4])
    ELSE [type |-> type,
          args |-> IF type = "key" /\ Len(args) = 1 THEN <<args[1], FALSE>> ELSE args]

\* Eventable.call_event with ANY_EVENTS off: the queue q with the event appended.
CallEvent(q, type, args) == Append(q, Load(type, args))

ParseMouseEventOneBased(args) ==
    LET button == Ord(args[1]) - 32
    IN <<BitAnd(button, 67), Ord(args[2]) - 32, Ord(args[3]) - 32, BitAnd(button, 60)>>

\* Terminal.parse_mouse_event
ParseMouseEvent(args) ==
    LET button == Ord(args[1]) - 32
        x == Ord(args[2]) - 32
        y == Ord(args[3]) - 32
    IN <<BitAnd(button, 67), x - 1, y - 1, BitAnd(button, 60)>>

\* str.split(';')
RECURSIVE Split(_)
Split(s) ==
    IF \A k \in 1..Len(s) : s[k] # ";" THEN <<s>>
    ELSE LET k == CHOOSE j \in 1..Len(s) : s[j] = ";" /\ \A m \in 1..(j - 1) : s[m] # ";"
         IN <<SubSeq(s, 1, k - 1)>> \o Split(SubSeq(s, k + 1, Len(s)))

\* Terminal.csi_command: the terminal and the queue it leaves, and the
\* exception it raised ("" for none).
CsiCommand(t, q, args, command) ==
    LET cmd == Upper(command)
        Key(k) == [t |-> t, q |-> CallEvent(q, "key", <<k>>), exc |-> ""]
        Nothing == [t |-> t, q |-> q, exc |-> ""]
    IN CASE cmd = "A" -> Key("up")
         [] cmd = "B" -> Key("down")
         [] cmd = "C" -> Key("right")
         [] cmd = "D" -> Key("left")
         [] cmd = "F" -> Key("end")
         [] cmd = "H" -> Key("home")
         [] cmd = "~" ->
              IF ~IsDecimal(args) THEN Nothing
              ELSE LET n == ParseInt(args)
                   IN IF n < Len(KEYS)
                      THEN (IF Index(KEYS, n - 1) # Unset THEN Key(Index(KEYS, n - 1)) ELSE Nothing)
                      ELSE IF n = 200
                      THEN [t |-> [t EXCEPT !.pasting = TRUE, !.paste_text = <<>>],
                            q |-> CallEvent(q, "paste_begin", <<>>), exc |-> ""]
                      ELSE IF n = 201
                      THEN [t |-> [t EXCEPT !.pasting = FALSE, !.paste_text = None],
                            q |-> CallEvent(q, "paste", <<t.paste_text>>), exc |-> ""]
                      ELSE Nothing
         [] cmd = "R" ->
              LET parts == Split(args)
              IN IF \E k \in 1..Len(parts) : ~IsDecimal(parts[k])
                 THEN [t |-> t, q |-> q, exc |-> "ValueError"]
                 ELSE LET pos == [k \in 1..Len(parts) |-> ParseInt(parts[k])]
                      IN [t |-> [t EXCEPT !.cursorPos = pos],
                          q |-> CallEvent(q, "cursor_pos", <<pos>>), exc |-> ""]
         [] OTHER -> Nothing

\* An access of the reader thread (loop_get_chars and what it calls) to an
\* attribute of the Terminal object, or to the queue call_event appends to.
Rd(of) == [by |-> "reader", of |-> of, how |-> "read"]
Wr(of) == [by |-> "reader", of |-> of, how |-> "write"]

\* Terminal.csi_command: the attributes it reads and writes.
CsiCommandAccess(args, command) ==
    LET cmd == Upper(command)
    IN CASE cmd \in {"A", "B", "C", "D", "F", "H"} -> {Wr("event_queue")}
         [] cmd = "~" ->
              IF ~IsDecimal(args) THEN {}
              ELSE LET n == ParseInt(args)
                   IN IF n < Len(KEYS)
                      THEN (IF Index(KEYS, n - 1) # Unset THEN {Wr("event_queue")} ELSE {})
                      ELSE IF n = 200
                      THEN {Wr("pasting"), Wr("paste_text"), Wr("event_queue")}
                      ELSE IF n = 201
                      THEN {Wr("pasting"), Rd("paste_text"), Wr("paste_text"),
                            Wr("event_queue")}
                      ELSE {}
         [] cmd = "R" ->
              LET parts == Split(args)
              IN IF \E k \in 1..Len(parts) : ~IsDecimal(parts[k])
                 THEN {}
                 ELSE {Wr("cursorPos"), Rd("cursorPos"), Wr("event_queue")}
         [] OTHER -> {}

\* get_chars returning with the last_is_escape of the loop left as it was.
GetCharsEndsEscaped(r, acc) ==
    /\ term' = r.t
    /\ event_queue' = IF r.exc = "" THEN r.q ELSE CallEvent(r.q, "error", <<r.exc>>)
    /\ reader' = [ReaderIdle EXCEPT !.last_is_escape = reader.last_is_escape]
    /\ access' = access \cup acc

\* get_chars returns False to loop_get_chars, or raises: the loop (line 484)
\* then reports the exception and its last_is_escape keeps its value.  acc is
\* what the step read and wrote before.
GetCharsEnds(r, acc) ==
    /\ term' = r.t
    /\ IF r.exc = ""
       THEN /\ event_queue' = r.q
            /\ reader' = ReaderIdle
            /\ access' = access \cup acc
       ELSE /\ event_queue' = CallEvent(r.q, "error", <<r.exc>>)
            /\ reader' = [ReaderIdle EXCEPT !.last_is_escape = reader.last_is_escape]
            /\ access' = access \cup acc \cup {Wr("event_queue")}

\* the variables of the dispatch, which the decoder leaves alone
dispatchVars == <<listeners, ANY_EVENTS, pc, frame, cpend, ppend, produced,
                  registered, appended, dispatched, calls, fired, callGhost>>

notIn == <<dispatchVars, cvVars, styles, new, stdout, wire, clock, lifeVars>>

\* get_key_init, lines 109-113: termios.tcgetattr, then tty.setraw.
GetKeyInit(d) == [mode |-> Raw, old_settings |-> d.mode]

\* get_key_quit without the test of line 119.
GetKeyQuitAlways(d) == [mode |-> d.old_settings, old_settings |-> Unset]

\* get_key_quit, lines 116-122: nothing without saved settings; else
\* termios.tcsetattr of them, and old_settings = None.
GetKeyQuit(d) ==
    IF d.old_settings = Unset THEN d
    ELSE [mode |-> d.old_settings, old_settings |-> Unset]

\* Terminal.get_chars, line 442: whether the ESC read before has aged past
\* the alt-key timeout.
AgedAtOnce(last_is_escape, ti) == last_is_escape

Aged(last_is_escape, ti) == last_is_escape /\ ti >= ALT_TIMEOUT

\* loop_get_chars, lines 482 and 487: the test of the while loop, and
\* get_key_quit() once it fails.
LoopGetChars ==
    /\ reader.pc = "loop"
    /\ access' = access \cup {Rd("running")}
    /\ IF term.running
       THEN /\ reader' = [reader EXCEPT !.pc = "get_chars"]
            /\ tty' = tty
       ELSE /\ reader' = [reader EXCEPT !.pc = "exited"]
            /\ tty' = GetKeyQuit(tty)
    /\ UNCHANGED <<term, event_queue, stdin, call, app, equeue,
                   dispatchVars, cvVars, styles, new, stdout, wire, clock>>

\* One call of Terminal.get_chars by loop_get_chars, up to its return or to
\* the first blocking get_key() of parse_csi / parse_ss3.  call.out is the
\* history of the values last_key took.  Line 433 returns None, which the
\* loop keeps as its last_is_escape, and the byte get_key_nb() read is gone.
GetChars ==
    /\ reader.pc = "get_chars"
    /\ IF ~term.running
       THEN /\ stdin' = IF stdin = <<>> THEN stdin ELSE Tail(stdin)
            /\ reader' = ReaderIdle
            /\ access' = access \cup {Rd("running")}
            /\ UNCHANGED <<term, event_queue, call>>
       ELSE
       LET ti == IF term.last_key = None THEN 0 ELSE clock - term.last_key
           aged == Aged(reader.last_is_escape, ti)
           q == IF aged THEN CallEvent(event_queue, "key", <<ESC>>) ELSE event_queue
           last_is_escape == reader.last_is_escape /\ ~aged
           acc == {Rd("running"), Rd("last_key")}
                    \cup (IF aged THEN {Wr("event_queue")} ELSE {})
       IN IF stdin = <<>>
          THEN /\ event_queue' = q
               /\ reader' = [ReaderIdle EXCEPT !.last_is_escape = last_is_escape]
               /\ access' = access \cup acc
               /\ UNCHANGED <<term, stdin, call>>
          ELSE LET c == IF Head(stdin) = "\r" THEN "\n" ELSE Head(stdin)
                   t == [term EXCEPT !.last_key = clock]
                   accKey == acc \cup {Wr("last_key")}
               IN /\ stdin' = Tail(stdin)
                  /\ call' = [call EXCEPT !.out = Append(@, clock)]
                  /\ IF c = ESC
                     THEN /\ event_queue' = q
                          /\ term' = t
                          /\ reader' = [ReaderIdle EXCEPT !.last_is_escape = TRUE]
                          /\ access' = access \cup accKey
                     ELSE IF last_is_escape /\ c = "["
                     THEN /\ event_queue' = q
                          /\ term' = t
                          /\ reader' = [reader EXCEPT !.pc = "parse_csi"]
                          /\ access' = access \cup accKey
                     ELSE IF last_is_escape /\ c = "O"
                     THEN /\ event_queue' = q
                          /\ term' = t
                          /\ reader' = [reader EXCEPT !.pc = "parse_ss3"]
                          /\ access' = access \cup accKey
                     ELSE IF last_is_escape
                     THEN /\ event_queue' = CallEvent(q, "key", <<c, TRUE>>)
                          /\ term' = t
                          /\ reader' = ReaderIdle
                          /\ access' = access \cup accKey \cup {Wr("event_queue")}
                     ELSE IF term.pasting
                     THEN /\ event_queue' = q
                          /\ term' = [t EXCEPT !.paste_text = Append(@, c)]
                          /\ reader' = ReaderIdle
                          /\ access' = access \cup accKey \cup {Rd("pasting"), Rd("paste_text"),
                                                    Wr("paste_text")}
                     ELSE /\ event_queue' = CallEvent(q, "key", <<c>>)
                          /\ term' = t
                          /\ reader' = ReaderIdle
                          /\ access' = access \cup accKey \cup {Rd("pasting"), Wr("event_queue")}
    /\ UNCHANGED notIn

\* Terminal.parse_csi, lines 387-396: the first get_key().
ParseCsi ==
    /\ reader.pc = "parse_csi"
    /\ stdin # <<>>
    /\ stdin' = Tail(stdin)
    /\ LET args == Head(stdin)
       IN IF args = "M"
          THEN IF GetProp(term, "mouse_tracking") # "True"
               THEN GetCharsEnds([t |-> term, q |-> event_queue, exc |-> ""], {Rd("props")})
               ELSE /\ reader' = [reader EXCEPT !.pc = "mouse", !.args = <<>>]
                    /\ access' = access \cup {Rd("props")}
                    /\ UNCHANGED <<term, event_queue>>
          ELSE IF IsAlpha(args) \/ args = "~"
          THEN GetCharsEnds(CsiCommand(term, event_queue, <<>>, args),
                            CsiCommandAccess(<<>>, args))
          ELSE /\ reader' = [reader EXCEPT !.pc = "csi_args", !.args = <<args>>]
               /\ access' = access
               /\ UNCHANGED <<term, event_queue>>
    /\ UNCHANGED <<call, notIn>>

\* Terminal.parse_csi, lines 399-413: one turn of the while loop.  Line 407
\* reads the local c before the for of line 408 binds it: UnboundLocalError.
CsiArgs ==
    /\ reader.pc = "csi_args"
    /\ stdin # <<>>
    /\ stdin' = Tail(stdin)
    /\ LET args == Append(reader.args, Head(stdin))
       IN IF Len(args) > 10
          THEN GetCharsEnds([t |-> term, q |-> CallEvent(event_queue, "key", <<ESC>>),
                             exc |-> "UnboundLocalError"], {Wr("event_queue")})
          ELSE IF IsAlpha(args[Len(args)]) \/ args[Len(args)] = "~"
          THEN GetCharsEnds(CsiCommand(term, event_queue, SubSeq(args, 1, Len(args) - 1),
                                       args[Len(args)]),
                            CsiCommandAccess(SubSeq(args, 1, Len(args) - 1), args[Len(args)]))
          ELSE /\ reader' = [reader EXCEPT !.args = args]
               /\ access' = access
               /\ UNCHANGED <<term, event_queue>>
    /\ UNCHANGED <<call, notIn>>

\* Terminal.parse_csi, lines 393-395: one get_key() of the three of a mouse
\* report, and the event after the third.
MouseByte ==
    /\ reader.pc = "mouse"
    /\ stdin # <<>>
    /\ stdin' = Tail(stdin)
    /\ LET args == Append(reader.args, Head(stdin))
       IN IF Len(args) = 3
          THEN GetCharsEnds([t |-> term, q |-> CallEvent(event_queue, "mouse", ParseMouseEvent(args)),
                             exc |-> ""], {Wr("event_queue")})
          ELSE /\ reader' = [reader EXCEPT !.args = args]
               /\ access' = access
               /\ UNCHANGED <<term, event_queue>>
    /\ UNCHANGED <<call, notIn>>

\* Terminal.parse_ss3
ParseSs3 ==
    /\ reader.pc = "parse_ss3"
    /\ stdin # <<>>
    /\ stdin' = Tail(stdin)
    /\ LET c == Head(stdin)
       IN IF c \notin DOMAIN SS3_KEYS
          THEN GetCharsEnds([t |-> term, q |-> event_queue, exc |-> ""], {})
          ELSE GetCharsEnds([t |-> term, q |-> CallEvent(event_queue, "key", <<SS3_KEYS[c]>>),
                             exc |-> ""], {Wr("event_queue")})
    /\ UNCHANGED <<call, notIn>>

\* ---- the environment: the next byte reaches sys.stdin; time passes.
Arrive ==
    /\ wire # <<>>
    /\ stdin' = Append(stdin, Head(wire))
    /\ wire' = Tail(wire)
    /\ UNCHANGED <<evVars, cvVars, callVars, term, stdout, reader, clock, lifeVars, access>>

Tick ==
    /\ clock < MaxClock
    /\ clock' = clock + 1
    /\ UNCHANGED <<evVars, cvVars, callVars, term, stdout, reader, stdin, wire, lifeVars, access>>

\* ---- what the terminal sends: the sequences of the CSI key table, and one
\* of each other kind of input.
RECURSIVE Digits(_)
Digits(n) ==
    IF n < 10 THEN <<Printable[n + 17]>> ELSE Append(Digits(n \div 10), Printable[(n % 10) + 17])

Finals == {"A", "B", "C", "D", "F", "H"}

KeySequences ==
    {<<ESC, "[", f>> : f \in Finals}
        \cup {<<ESC, "[">> \o Digits(n) \o <<"~">> : n \in 0..MaxCode}

OtherSequences ==
    { <<ESC>>, <<"x", "\r">>, <<ESC, "x">>, <<ESC, "O", "P">>, <<ESC, "[", "a">>,
      <<ESC, "[", "M", " ", "&", "+">>, <<ESC, "[", "5", ";", "7", "R">>,
      <<ESC, "[", "2", "0", "0", "~">>, <<ESC, "[", "2", "0", "1", "~">> }

\* A bracketed paste: the text between the markers 200 and 201.
PasteTexts == StringsUpTo({"x", "\r"}, MaxPaste)

PasteSequences ==
    {<<ESC, "[", "2", "0", "0", "~">> \o text \o <<ESC, "[", "2", "0", "1", "~">> :
        text \in PasteTexts}

\* ESC and one more byte.
AltChars == {"x", "~", "M", "\r", ESC}
AltSequences == {<<ESC, c>> : c \in AltChars}

\* ESC [ and eleven bytes that are no letter and no "~".
OverlongSequences ==
    { <<ESC, "[", "1", "2", "3", "4", "5", "6", "7", "8", "9", "0", "1">>,
      <<ESC, "[", "1", ";", "2", ";", "3", ";", "4", ";", "5", ";", "6">> }

\* A mouse report: ESC [ M and the bytes of the button, the column and the row.
ButtonBytes == {" ", "!", "$", "(", "0", "@", "GRAVE", "a", "|"}
ColumnBytes == {"!", "%"}
RowBytes == {"!", "*"}
MouseSequences ==
    {<<ESC, "[", "M", b, cx, cy>> : b \in ButtonBytes, cx \in ColumnBytes, cy \in RowBytes}

\* CSI commands csi_command does not know: a final letter that is no case
\* of its match, an argument before "~" that is no number, a number past the
\* table that is neither 200 nor 201; and such a command with a key after it.
UnknownCsi ==
    { <<ESC, "[", "Z">>, <<ESC, "[", "e">>, <<ESC, "[", "1", "Z">>,
      <<ESC, "[", "~">>, <<ESC, "[", ";", "~">>, <<ESC, "[", "1", ";", "2", "~">>,
      <<ESC, "[", "0", "~">>, <<ESC, "[", "9", "9", "~">>, <<ESC, "[", "1", "9", "9", "~">>,
      <<ESC, "[", "2", "0", "2", "~">> }

UnknownSequences == UnknownCsi \cup {Append(text, "x") : text \in UnknownCsi}

\* Cursor-position reports whose arguments are not all numbers, alone and with
\* the key "x" after them: int() raises ValueError at line 531.
RaisingCsi ==
    { <<ESC, "[", "R">>, <<ESC, "[", ";", "R">>, <<ESC, "[", "1", ";", "R">> }
RaisingSequences == RaisingCsi \cup {Append(text, "x") : text \in RaisingCsi}

Sequences ==
    KeySequences \cup OtherSequences \cup PasteSequences \cup AltSequences
        \cup OverlongSequences \cup MouseSequences \cup UnknownSequences
        \cup RaisingSequences

\* The terminal after construction, or after enable_mouse_tracking() and in a
\* bracketed paste.
Reading == [NewTerminal EXCEPT !.running = TRUE, !.thread_started = TRUE]
Terminals ==
    { Reading,
      [Reading EXCEPT !.props["mouse_tracking"] = "True"],
      [Reading EXCEPT !.pasting = TRUE, !.paste_text = <<>>] }

\* The device and the application once start_get_chars() has been called and
\* loop_get_chars has reached its loop.
LifeReading ==
    /\ tty = GetKeyInit(NewTty)
    /\ app = NewApp
    /\ access = {}
    /\ equeue = NewEventQueue

InitKeys ==
    /\ CanvasAtRest
    /\ EvAtRest
    /\ styles = <<>>
    /\ new = NoNew
    /\ stdout = <<>>
    /\ stdin = <<>>
    /\ reader = ReaderIdle
    /\ clock = 1
    /\ LifeReading
    /\ term \in Terminals
    /\ wire \in Sequences
    /\ call = [NoCall EXCEPT !.op = "keys", !.text = wire, !.t = term]

NextKeys ==
    \/ LoopGetChars
    \/ GetChars
    \/ ParseCsi
    \/ CsiArgs
    \/ MouseByte
    \/ ParseSs3
    \/ Arrive
    \/ Tick

SpecKeys == InitKeys /\ [][NextKeys]_vars



\* ---- the decoder on the input get_chars handles alone (no CSI, no SS3),
\* with the scheduling of the program: loop_get_chars polls again and again
\* (line 482), the bytes sent arrive, and time passes.
PlainSequences == {<<ESC>>, <<"x">>, <<"x", ESC>>} \cup AltSequences

InitEsc ==
    /\ CanvasAtRest
    /\ EvAtRest
    /\ styles = <<>>
    /\ new = NoNew
    /\ stdout = <<>>
    /\ stdin = <<>>
    /\ reader = ReaderIdle
    /\ clock = 1
    /\ LifeReading
    /\ term \in Terminals
    /\ wire \in PlainSequences
    /\ call = [NoCall EXCEPT !.op = "keys", !.text = wire, !.t = term]

NextEsc ==
    \/ LoopGetChars
    \/ GetChars
    \/ Arrive
    \/ Tick

SpecEsc ==
    /\ InitEsc
    /\ [][NextEsc]_vars
    /\ WF_vars(LoopGetChars)
    /\ WF_vars(GetChars)
    /\ WF_vars(Arrive)
    /\ WF_vars(Tick)









\* ---- stopping the reader thread.
\* An access of the owning thread to an attribute of the Terminal object.
OwnRd(of) == [by |-> "owner", of |-> of, how |-> "read"]
OwnWr(of) == [by |-> "owner", of |-> of, how |-> "write"]

\* what a step of the owning thread in stop_get_chars leaves alone
notStop == <<evVars, cvVars, callVars, stdout, inVars, tty, equeue>>

\* Terminal.stop_get_chars, lines 375-378: stop_running(), the test of
\* thread_started, and the owning thread at the join if the thread was started.
StopGetChars ==
    /\ app.pc = "stop"
    /\ access' = access \cup {OwnWr("running"), OwnRd("thread_started")}
    /\ IF ~term.thread_started
       THEN /\ term' = [term EXCEPT !.running = FALSE]
            /\ app' = [app EXCEPT !.pc = "returned"]
       ELSE /\ term' = [term EXCEPT !.running = FALSE]
            /\ app' = [app EXCEPT !.pc = "join"]
    /\ UNCHANGED notStop

\* Terminal.stop_get_chars, lines 379-380: get_char_thread.join() returns
\* once loop_get_chars has returned, and thread_started = False.
Join ==
    /\ app.pc = "join"
    /\ reader.pc = "exited"
    /\ term' = [term EXCEPT !.thread_started = FALSE]
    /\ app' = [app EXCEPT !.pc = "returned"]
    /\ access' = access \cup {OwnWr("thread_started")}
    /\ UNCHANGED notStop

\* The reader thread reading, the owning thread about to call
\* stop_get_chars(), and the terminal sending one sequence or nothing.
InitStop ==
    /\ CanvasAtRest
    /\ EvAtRest
    /\ styles = <<>>
    /\ new = NoNew
    /\ stdout = <<>>
    /\ stdin = <<>>
    /\ reader = ReaderIdle
    /\ clock = 1
    /\ tty = GetKeyInit(NewTty)
    /\ app = [NewApp EXCEPT !.pc = "stop"]
    /\ access = {}
    /\ equeue = NewEventQueue
    /\ term \in Terminals
    /\ wire \in OtherSequences \cup {<<>>}
    /\ call = [NoCall EXCEPT !.op = "stop", !.text = wire, !.t = term]

NextStop ==
    \/ LoopGetChars
    \/ GetChars
    \/ ParseCsi
    \/ CsiArgs
    \/ MouseByte
    \/ ParseSs3
    \/ Arrive
    \/ Tick
    \/ StopGetChars
    \/ Join

\* Both threads are scheduled and time passes; nothing makes the terminal
\* send a byte.
SpecStop ==
    /\ InitStop
    /\ [][NextStop]_vars
    /\ WF_vars(LoopGetChars)
    /\ WF_vars(GetChars)
    /\ WF_vars(ParseCsi)
    /\ WF_vars(CsiArgs)
    /\ WF_vars(MouseByte)
    /\ WF_vars(ParseSs3)
    /\ WF_vars(Tick)
    /\ WF_vars(StopGetChars)
    /\ WF_vars(Join)

\* ---- the application: App.run, from init() to quit().
\* Terminal.uninit, lines 691-696.
Uninit(t, out) ==
    LET a == TermProp(t, out, "alternative_screen", "False", FALSE, "disable_alternative_screen")
        b == TermProp(a.t, a.out, "mouse_tracking", "False", FALSE, "disable_mouse_tracking")
        c == TermProp(b.t, b.out, "bracketed_paste", "False", FALSE, "disable_bracketed_paste")
        d == TermProp(c.t, c.out, "cursor_visible", "True", FALSE, "set_cursor_visible")
    IN Reset(d.t, d.out)

\* App.init, lines 112-118: the screen modes, reset, clear_screen,
\* hide_cursor, home.
InitScreen(t, out) ==
    LET a == TermProp(t, out, "alternative_screen", "True", FALSE, "enable_alternative_screen")
        b == TermProp(a.t, a.out, "mouse_tracking", "True", FALSE, "enable_mouse_tracking")
        c == TermProp(b.t, b.out, "bracketed_paste", "True", FALSE, "enable_bracketed_paste")
        d == Reset(c.t, c.out)
        e == TermProp(d.t, Write(d.out, <<CSI \o "2J">>), "cursor_visible", "False", FALSE,
                      "set_cursor_invisible")
    IN [t |-> e.t, out |-> Write(e.out, <<CSI \o "H">>)]

\* The attributes of the Terminal the screen calls read and write.
ScreenAccess == {OwnRd("props"), OwnWr("props"), OwnRd("current_style"), OwnWr("current_style")}

\* Terminal.start_get_chars, lines 370-372, called by App.init (line 109):
\* the thread is started and thread_started = True.
StartGetChars ==
    /\ app.pc = "new"
    /\ ~app.initialized
    /\ reader.pc = "new"
    /\ reader' = [reader EXCEPT !.pc = "started"]
    /\ term' = [term EXCEPT !.thread_started = TRUE]
    /\ app' = [app EXCEPT !.pc = "init"]
    /\ access' = access \cup {OwnWr("thread_started")}
    /\ UNCHANGED <<evVars, cvVars, callVars, stdout, stdin, clock, wire, tty, equeue>>

\* loop_get_chars, line 474: the first statement of the thread.
ThreadRuns ==
    /\ reader.pc = "started"
    /\ reader' = [reader EXCEPT !.pc = "init"]
    /\ term' = [term EXCEPT !.running = TRUE]
    /\ access' = access \cup {Wr("running")}
    /\ UNCHANGED <<evVars, cvVars, callVars, stdout, stdin, clock, wire, lifeVars>>

\* loop_get_chars, lines 476-480: get_key_init(), call_event("start"),
\* last_is_escape = False.
LoopGetCharsInit ==
    /\ reader.pc = "init"
    /\ reader' = ReaderIdle
    /\ tty' = GetKeyInit(tty)
    /\ event_queue' = CallEvent(event_queue, "start", <<>>)
    /\ access' = access \cup {Wr("event_queue")}
    /\ UNCHANGED <<term, stdin, call, app, equeue,
                   dispatchVars, cvVars, styles, new, stdout, wire, clock>>

\* App.run, lines 338-349, after start_get_chars(): the rest of init()
\* (lines 110-120), which raises or not (signal.signal outside the main
\* thread, a write to a closed stdout); on an exception run() logs it and
\* returns; else running = True, call_event("run") and the first update().
AppInit ==
    /\ app.pc = "init"
    /\ \E raises \in BOOLEAN :
         IF raises
         THEN /\ app' = [app EXCEPT !.pc = "returned"]
              /\ access' = access
              /\ UNCHANGED <<term, stdout, event_queue>>
         ELSE LET r == InitScreen(term, stdout)
              IN /\ term' = r.t
                 /\ stdout' = r.out
                 /\ app' = [pc |-> "loop", initialized |-> TRUE, running |-> TRUE]
                 /\ event_queue' = CallEvent(event_queue, "run", <<>>)
                 /\ access' = access \cup ScreenAccess \cup {OwnWr("event_queue")}
    /\ UNCHANGED <<dispatchVars, cvVars, callVars, inVars, tty, equeue>>

\* The key CTRL.c, the byte 3.
ETX == "ETX"
Stops(q) == \E k \in 1..Len(q) : q[k].type = "key" /\ q[k].args[1] = ETX

\* App.run, lines 351-373: one turn of the while loop.  update() hands the
\* queued events to the handlers, and on_key (lines 420-423) calls stop() on
\* CTRL.c; update() or render() may raise, and the loop breaks.  What render
\* writes is left out.
AppLoop ==
    /\ app.pc = "loop"
    /\ \E raises \in BOOLEAN :
         IF raises
         THEN /\ app' = [app EXCEPT !.pc = "quit"]
              /\ UNCHANGED event_queue
         ELSE /\ event_queue' = <<>>
              /\ app' = IF Stops(event_queue)
                        THEN [app EXCEPT !.pc = "quit", !.running = FALSE]
                        ELSE app
    /\ access' = access \cup {OwnRd("event_queue"), OwnWr("event_queue")}
    /\ UNCHANGED <<dispatchVars, cvVars, callVars, term, stdout, inVars, tty, equeue>>

\* App.quit, lines 122-129, up to its call of Terminal.stop.
AppQuit ==
    /\ app.pc = "quit"
    /\ app' = IF ~app.initialized
              THEN [app EXCEPT !.pc = "returned"]
              ELSE [app EXCEPT !.pc = "uninit", !.initialized = FALSE]
    /\ access' = access
    /\ UNCHANGED <<evVars, cvVars, callVars, term, stdout, inVars, tty, equeue>>

\* Terminal.stop, lines 698-699: uninit(), up to the call of stop_get_chars.
TerminalStop ==
    /\ app.pc = "uninit"
    /\ LET r == Uninit(term, stdout)
       IN /\ term' = r.t
          /\ stdout' = r.out
    /\ app' = [app EXCEPT !.pc = "stop"]
    /\ access' = access \cup ScreenAccess
    /\ UNCHANGED <<evVars, cvVars, callVars, inVars, tty, equeue>>

\* What the user types while the application runs.
RunSequences == {<<>>, <<"x">>, <<ETX>>, <<"x", ETX>>, <<ESC>>, <<ESC, ETX>>}

InitRun ==
    /\ CanvasAtRest
    /\ EvAtRest
    /\ styles = <<>>
    /\ new = NoNew
    /\ term = NewTerminal
    /\ stdout = <<>>
    /\ stdin = <<>>
    /\ reader = ReaderNew
    /\ clock = 1
    /\ LifeAtRest
    /\ wire \in RunSequences
    /\ call = [NoCall EXCEPT !.op = "run", !.text = wire]

NextRun ==
    \/ StartGetChars
    \/ ThreadRuns
    \/ LoopGetCharsInit
    \/ LoopGetChars
    \/ GetChars
    \/ Arrive
    \/ Tick
    \/ AppInit
    \/ AppLoop
    \/ AppQuit
    \/ TerminalStop
    \/ StopGetChars
    \/ Join

\* Both threads are scheduled, the bytes typed arrive and time passes.
SpecRun ==
    /\ InitRun
    /\ [][NextRun]_vars
    /\ WF_vars(StartGetChars)
    /\ WF_vars(ThreadRuns)
    /\ WF_vars(LoopGetCharsInit)
    /\ WF_vars(LoopGetChars)
    /\ WF_vars(GetChars)
    /\ WF_vars(Arrive)
    /\ WF_vars(Tick)
    /\ WF_vars(AppInit)
    /\ WF_vars(AppLoop)
    /\ WF_vars(AppQuit)
    /\ WF_vars(TerminalStop)
    /\ WF_vars(StopGetChars)
    /\ WF_vars(Join)

\* ---- teardown again: once run() has returned, get_key_quit(), App.quit()
\* or Terminal.stop() is called once more.
CallGetKeyQuit ==
    /\ app.pc = "returned"
    /\ reader.pc = "exited"
    /\ tty' = GetKeyQuit(tty)
    /\ call' = [call EXCEPT !.op = "get_key_quit"]
    /\ access' = access
    /\ UNCHANGED <<evVars, cvVars, styles, new, term, stdout, inVars, app, equeue>>

CallQuit ==
    /\ app.pc = "returned"
    /\ app' = [app EXCEPT !.pc = "quit"]
    /\ call' = [call EXCEPT !.op = "quit"]
    /\ access' = access
    /\ UNCHANGED <<evVars, cvVars, styles, new, term, stdout, inVars, tty, equeue>>

CallStop ==
    /\ app.pc = "returned"
    /\ app' = [app EXCEPT !.pc = "uninit"]
    /\ call' = [call EXCEPT !.op = "stop"]
    /\ access' = access
    /\ UNCHANGED <<evVars, cvVars, styles, new, term, stdout, inVars, tty, equeue>>

NextTeardown ==
    \/ StartGetChars
    \/ ThreadRuns
    \/ LoopGetCharsInit
    \/ LoopGetChars
    \/ GetChars
    \/ Arrive
    \/ Tick
    \/ AppInit
    \/ AppLoop
    \/ AppQuit
    \/ TerminalStop
    \/ StopGetChars
    \/ Join
    \/ CallGetKeyQuit
    \/ CallQuit
    \/ CallStop

SpecTeardown == InitRun /\ [][NextTeardown]_vars

\* ---- the two threads on the attributes of the Terminal: the application
\* runs while the terminal sends keys, a mouse report or a cursor-position
\* report.
ShareSequences ==
    RunSequences \cup { <<ESC, "[", "M", " ", "&", "+", ETX>>,
                        <<ESC, "[", "5", ";", "7", "R", ETX>>,
                        <<ESC, "[", "A", ETX>> }

InitShare ==
    /\ CanvasAtRest
    /\ EvAtRest
    /\ styles = <<>>
    /\ new = NoNew
    /\ term = NewTerminal
    /\ stdout = <<>>
    /\ stdin = <<>>
    /\ reader = ReaderNew
    /\ clock = 1
    /\ LifeAtRest
    /\ wire \in ShareSequences
    /\ call = [NoCall EXCEPT !.op = "run", !.text = wire]

NextShare ==
    \/ StartGetChars
    \/ ThreadRuns
    \/ LoopGetCharsInit
    \/ LoopGetChars
    \/ GetChars
    \/ ParseCsi
    \/ CsiArgs
    \/ MouseByte
    \/ Arrive
    \/ Tick
    \/ AppInit
    \/ AppLoop
    \/ AppQuit
    \/ TerminalStop
    \/ StopGetChars
    \/ Join

SpecShare == InitShare /\ [][NextShare]_vars







\* ------------------------------------------------------------ EventQueue
\* The events a producer queues are numbered 1, 2, ... in queue_event order; a
\* queue has at most MaxHandlers handlers, numbered in handler-list order.
MaxQueued == 2
MaxHandlers == 2

\* what a step of an EventQueue thread leaves alone
notQueue == <<evVars, cvVars, callVars, term, stdout, inVars, tty, app, access>>

\* Thread.is_alive() of EventQueue.thread: started, and loop() has neither
\* returned nor been left by an exception.
IsAlive(q) == q.thread.pc \notin {"new", "done", "died"}

\* EventQueue.start, lines 31-36: nothing when running; else running = True
\* and the thread is started.  Called on a queue whose thread was never
\* started.
EventQueueStart ==
    /\ equeue.thread.pc = "new"
    /\ equeue' = IF equeue.running THEN equeue
                 ELSE [equeue EXCEPT !.running = TRUE, !.thread.pc = "loop"]
    /\ UNCHANGED notQueue

\* EventQueue.queue_event, lines 15-16, called by a producer thread.
QueueEvent ==
    /\ equeue.queued < MaxQueued
    /\ equeue' = [equeue EXCEPT !.queue = Append(@, equeue.queued + 1),
                                !.queued = @ + 1]
    /\ UNCHANGED notQueue

\* EventQueue.loop, line 23: the test of the while loop.
EventQueueLoop ==
    /\ equeue.thread.pc = "loop"
    /\ equeue' = [equeue EXCEPT !.thread.pc = IF equeue.running THEN "body" ELSE "done"]
    /\ UNCHANGED notQueue

\* EventQueue.loop, lines 24-27: continue on an empty queue, else
\* ev = queue.pop(0) and handle_event(ev) begins with the first handler.
EventQueuePop ==
    /\ equeue.thread.pc = "body"
    /\ equeue' = IF equeue.queue = <<>>
                 THEN [equeue EXCEPT !.thread.pc = "loop"]
                 ELSE [equeue EXCEPT !.queue = Tail(@),
                                     !.thread = [pc |-> IF equeue.handlers = 0 THEN "loop"
                                                        ELSE "handle",
                                                 ev |-> Head(equeue.queue), h |-> 1]]
    /\ UNCHANGED notQueue

\* What a handler does with the event it is passed: it returns, it raises, or
\* it calls stop() of the queue it runs on and returns.
HandlerOutcomes == {"returns", "raises", "stops"}

\* A stop() on the queue's own thread that leaves the flag as it was.
StopOnThreadKeeps(q) == [q EXCEPT !.self_stop = TRUE]

\* EventQueue.stop on the queue's own thread, lines 39-41: running = False,
\* and return.
StopOnThread(q) == [q EXCEPT !.running = FALSE, !.self_stop = TRUE]

\* The for loop of handle_event after handler h returned: the next handler,
\* or back to the test of the while loop.
NextHandler(q) ==
    IF q.thread.h < q.handlers THEN [q EXCEPT !.thread.h = @ + 1]
    ELSE [q EXCEPT !.thread.pc = "loop"]

\* EventQueue.handle_event, lines 19-20: one handler is passed the event.  An
\* exception leaves handle_event and loop(), which catch nothing: the thread
\* ends with running still True.
HandleEvent ==
    /\ equeue.thread.pc = "handle"
    /\ \E outcome \in HandlerOutcomes :
        LET q == [equeue EXCEPT !.passed = @ \cup {<<equeue.thread.ev, equeue.thread.h>>}]
        IN equeue' = CASE outcome = "returns" -> NextHandler(q)
                       [] outcome = "raises" -> [q EXCEPT !.thread.pc = "died"]
                       [] outcome = "stops" -> NextHandler(StopOnThread(q))
    /\ UNCHANGED notQueue

\* EventQueue.stop called by another thread, line 39: with a thread that is
\* not alive, running = False and return (lines 40-41).
\* The stop record keeps the arguments and the state of the call: wait, the
\* number of events queued before it, whether the queue was running.
EventQueueStop ==
    /\ equeue.stop.pc = "idle"
    /\ \E wait \in BOOLEAN :
        LET entered == [pc |-> "stopping", wait |-> wait, before |-> equeue.queued,
                        on_running |-> equeue.running /\ IsAlive(equeue)]
        IN equeue' = IF ~IsAlive(equeue)
                     THEN [equeue EXCEPT !.running = FALSE,
                                         !.stop = [entered EXCEPT !.pc = "returned"]]
                     ELSE [equeue EXCEPT !.stop = entered]
    /\ UNCHANGED notQueue

\* EventQueue.stop, lines 43-48: a queue that is not running is only joined;
\* else, with wait, the queue is watched until it is empty.
EventQueueStopTest ==
    /\ equeue.stop.pc = "stopping"
    /\ equeue' = [equeue EXCEPT !.stop.pc = IF ~equeue.running THEN "join"
                                            ELSE IF equeue.stop.wait THEN "wait"
                                            ELSE "clear"]
    /\ UNCHANGED notQueue

\* EventQueue.stop, lines 49-50: the loop "while self.queue: pass" is left
\* once the queue is seen empty.
EventQueueStopWait ==
    /\ equeue.stop.pc = "wait"
    /\ equeue.queue = <<>>
    /\ equeue' = [equeue EXCEPT !.stop.pc = "clear"]
    /\ UNCHANGED notQueue

\* EventQueue.stop, line 52: running = False.
EventQueueStopClear ==
    /\ equeue.stop.pc = "clear"
    /\ equeue' = [equeue EXCEPT !.running = FALSE, !.stop.pc = "join"]
    /\ UNCHANGED notQueue

\* EventQueue.stop, lines 45 and 54: thread.join() returns once the thread is
\* not alive.
EventQueueJoin ==
    /\ equeue.stop.pc = "join"
    /\ ~IsAlive(equeue)
    /\ equeue' = [equeue EXCEPT !.stop.pc = "returned"]
    /\ UNCHANGED notQueue

\* ---- a stop request on the reader thread.
\* Terminal.stop_get_chars called on the reader thread, inside the body of the
\* loop of loop_get_chars, lines 375-380: stop_running(), nothing more when
\* the thread was not started, else no join (get_char_thread is
\* current_thread()) and thread_started = False; the thread goes on.
StopGetCharsOnReader ==
    /\ reader.pc = "get_chars"
    /\ call.op # "stop_get_chars"
    /\ term' = [term EXCEPT !.running = FALSE, !.thread_started = FALSE]
    /\ call' = [call EXCEPT !.op = "stop_get_chars"]
    /\ access' = access \cup {Wr("running"), Rd("thread_started"), Wr("thread_started")}
    /\ UNCHANGED <<evVars, cvVars, styles, new, stdout, inVars, lifeVars>>

\* The reader thread of a terminal reading, an EventQueue just made with its
\* handlers, and the terminal sending one key or nothing.
InitOnThread ==
    /\ CanvasAtRest
    /\ EvAtRest
    /\ styles = <<>>
    /\ new = NoNew
    /\ stdout = <<>>
    /\ stdin = <<>>
    /\ reader = ReaderIdle
    /\ clock = 1
    /\ tty = GetKeyInit(NewTty)
    /\ app = NewApp
    /\ access = {}
    /\ term = Reading
    /\ wire \in {<<>>, <<"x">>, <<ESC>>}
    /\ call = [NoCall EXCEPT !.text = wire, !.t = term]
    /\ equeue \in {[NewEventQueue EXCEPT !.handlers = n] : n \in 1..MaxHandlers}

NextOnThread ==
    \/ LoopGetChars
    \/ GetChars
    \/ Arrive
    \/ Tick
    \/ StopGetCharsOnReader
    \/ EventQueueStart
    \/ QueueEvent
    \/ EventQueueLoop
    \/ EventQueuePop
    \/ HandleEvent

SpecOnThread == InitOnThread /\ [][NextOnThread]_vars

\* ---- EventQueue.stop called by another thread.
\* A queue just made with its handlers; a producer, the queue's thread and a
\* thread that calls stop().
InitWait ==
    /\ CanvasAtRest
    /\ EvAtRest
    /\ CallAtRest
    /\ term = NewTerminal
    /\ stdout = <<>>
    /\ InAtRest
    /\ tty = NewTty
    /\ app = NewApp
    /\ access = {}
    /\ equeue \in {[NewEventQueue EXCEPT !.handlers = n] : n \in 1..MaxHandlers}

NextWait ==
    \/ EventQueueStart
    \/ QueueEvent
    \/ EventQueueLoop
    \/ EventQueuePop
    \/ HandleEvent
    \/ EventQueueStop
    \/ EventQueueStopTest
    \/ EventQueueStopWait
    \/ EventQueueStopClear
    \/ EventQueueJoin

\* The queue's thread and the thread inside stop() are scheduled; nothing
\* makes the producer queue an event or a client call start() or stop().
SpecWait ==
    /\ InitWait
    /\ [][NextWait]_vars
    /\ WF_vars(EventQueueLoop)
    /\ WF_vars(EventQueuePop)
    /\ WF_vars(HandleEvent)
    /\ WF_vars(EventQueueStopTest)
    /\ WF_vars(EventQueueStopWait)
    /\ WF_vars(EventQueueStopClear)
    /\ WF_vars(EventQueueJoin)

\* ---- sub and copy of a StylizedCanvas: the canvas c with its styles st.
\* StylizedCanvas.set_style_line_part, lines 226-239.
SetStyleLinePart(c, st, y, x, part) ==
    IF part = <<>> THEN [st |-> st, ok |-> TRUE]
    ELSE IF ~(0 <= x /\ x < c.w) THEN [st |-> st, ok |-> FALSE]
    ELSE IF ~(0 <= y /\ y < c.h) THEN [st |-> st, ok |-> FALSE]
    ELSE IF ~(Len(part) <= c.w - x) THEN [st |-> st, ok |-> FALSE]
    ELSE LET l == st[y + 1]
         IN SetStyleLine(c, st, y,
                         SubSeq(l, 1, x) \o part \o SubSeq(l, x + Len(part) + 1, Len(l)))

\* StylizedCanvas.set_style_at, line 203.
SetStyleAt(c, st, x, y, style) == SetStyleLinePart(c, st, y, x, <<style>>)

\* StylizedCanvas.copy, lines 241-244: the copy is made, given the copied
\* list of styles, and dropped; with no return statement the call returns
\* None.
StylizedCopy(c, st) ==
    LET r == Copy(c)
        made == [r.new EXCEPT !.styles = ListCopy(st).list]
    IN [new |-> NoNew, ok |-> TRUE]

\* StylizedCanvas.copy_line_part, lines 251-254, on the canvas dest with the
\* styles dst: the cells, then the styles of the same part.
StylizedCopyLinePart(c, st, dest, dst, y, dest_y, x) ==
    LET r == CopyLinePart(c, dest, y, dest_y, x)
        part == GetStyleLinePart(c, st, y, x, dest.w)
    IN IF ~r.ok \/ ~part.ok THEN [cv |-> dest, st |-> dst, ok |-> FALSE]
       ELSE LET q == SetStyleLine(r.cv, dst, dest_y, part.val)
            IN [cv |-> r.cv, st |-> q.st, ok |-> q.ok]

\* Canvas.sub on a StylizedCanvas, lines 154-155: the rows from new_y on.
RECURSIVE StylizedSubRows(_, _, _, _, _, _, _)
StylizedSubRows(c, st, dest, dst, x, y, new_y) ==
    IF new_y >= dest.h THEN [cv |-> dest, st |-> dst, ok |-> TRUE]
    ELSE LET r == StylizedCopyLinePart(c, st, dest, dst, y + new_y, new_y, x)
         IN IF r.ok THEN StylizedSubRows(c, st, r.cv, r.st, x, y, new_y + 1) ELSE r

\* Canvas.sub, lines 143-157, on a StylizedCanvas: self.copy() and
\* self.__class__ are those of StylizedCanvas.
StylizedSub(c, st, x, y, w, h) ==
    IF ~(0 <= x /\ x < c.w) THEN NotReturned
    ELSE IF ~(0 <= y /\ y < c.h) THEN NotReturned
    ELSE IF ~(0 <= w /\ w <= c.w - x) THEN NotReturned
    ELSE IF ~(0 <= h /\ h <= c.h - y) THEN NotReturned
    ELSE IF x = 0 /\ y = 0 /\ w = c.w /\ h = c.h THEN StylizedCopy(c, st)
    ELSE LET r == StylizedSubRows(c, st, NewCanvas(w, h, <<DEFAULT_CHAR>>),
                                  NewStyles(w, h, DEFAULT_STYLE), x, y, 0)
         IN IF r.ok THEN [new |-> [AsNew(r.cv, FALSE) EXCEPT !.styles = r.st], ok |-> TRUE]
            ELSE NotReturned

CallStylizedSub(x, y, w, h) ==
    /\ call.op = "none"
    /\ LET r == StylizedSub(canvas, styles, x, y, w, h)
       IN /\ new' = r.new
          /\ ok' = r.ok
    /\ call' = [NoCall EXCEPT !.op = "stylized_sub", !.x = x, !.y = y, !.w = w, !.h = h,
                              !.before = canvas, !.st = styles]
    /\ UNCHANGED <<canvas, styles, notCall>>

CallStylizedCopy ==
    /\ call.op = "none"
    /\ LET r == StylizedCopy(canvas, styles)
       IN /\ new' = r.new
          /\ ok' = r.ok
    /\ call' = [NoCall EXCEPT !.op = "stylized_copy", !.before = canvas, !.st = styles]
    /\ UNCHANGED <<canvas, styles, notCall>>

\* set_style_at(x, y, style) and set_at(x, y, char) on what the call
\* returned; on None they raise AttributeError.
NewSetStyleAt(x, y, style) ==
    /\ call.op \in {"stylized_sub", "stylized_copy"} /\ ok
    /\ IF new.made
       THEN LET r == SetStyleAt(AsCanvas(new), new.styles, x, y, style)
            IN /\ ok' = r.ok
               /\ new' = [new EXCEPT !.styles = r.st]
       ELSE /\ ok' = FALSE
            /\ new' = new
    /\ call' = [call EXCEPT !.op = "mutate_new"]
    /\ UNCHANGED <<canvas, styles, notCall>>

NewStylizedSetAt(x, y, char) ==
    /\ call.op \in {"stylized_sub", "stylized_copy"} /\ ok
    /\ IF new.made
       THEN LET r == SetAt(AsCanvas(new), x, y, char)
            IN /\ ok' = r.ok
               /\ new' = [new EXCEPT !.data = r.cv.data]
       ELSE /\ ok' = FALSE
            /\ new' = new
    /\ call' = [call EXCEPT !.op = "mutate_new"]
    /\ UNCHANGED <<canvas, styles, notCall>>

\* A StylizedCanvas with any content and any styles.
InitStylized ==
    /\ canvas \in Canvases
    /\ styles \in [1..canvas.h -> [1..canvas.w -> StyleVals]]
    /\ ok = TRUE
    /\ new = NoNew
    /\ call = NoCall
    /\ EvAtRest
    /\ TermAtRest

NextStylizedSub ==
    \/ \E x \in MutAt, y \in MutAt, w \in 0..MaxW, h \in Heights : CallStylizedSub(x, y, w, h)
    \/ CallStylizedCopy
    \/ \E x \in MutAt, y \in MutAt, style \in StyleVals : NewSetStyleAt(x, y, style)
    \/ \E x \in MutAt, y \in MutAt, char \in Chars : NewStylizedSetAt(x, y, <<char>>)

SpecStylizedSub == InitStylized /\ [][NextStylizedSub]_vars

\* ---- start_get_chars(), then stop_get_chars() by the same thread.
\* The owning thread, start_get_chars() having returned, calls
\* stop_get_chars().
CallStopGetChars ==
    /\ app.pc = "init"
    /\ app' = [app EXCEPT !.pc = "stop"]
    /\ UNCHANGED <<evVars, cvVars, callVars, term, stdout, inVars, tty, equeue, access>>

\* A Terminal just made, its thread not started, and the terminal sending a
\* key or nothing.
InitRace ==
    /\ CanvasAtRest
    /\ EvAtRest
    /\ styles = <<>>
    /\ new = NoNew
    /\ term = NewTerminal
    /\ stdout = <<>>
    /\ stdin = <<>>
    /\ reader = ReaderNew
    /\ clock = 1
    /\ LifeAtRest
    /\ wire \in {<<>>, <<"x">>, <<"x", "x">>}
    /\ call = [NoCall EXCEPT !.text = wire, !.t = term]

NextRace ==
    \/ StartGetChars
    \/ ThreadRuns
    \/ LoopGetCharsInit
    \/ LoopGetChars
    \/ GetChars
    \/ Arrive
    \/ Tick
    \/ CallStopGetChars
    \/ StopGetChars
    \/ Join

\* Both threads are scheduled, time passes and the terminal sends what it has
\* to send.
SpecRace ==
    /\ InitRace
    /\ [][NextRace]_vars
    /\ WF_vars(StartGetChars)
    /\ WF_vars(ThreadRuns)
    /\ WF_vars(LoopGetCharsInit)
    /\ WF_vars(LoopGetChars)
    /\ WF_vars(GetChars)
    /\ WF_vars(Arrive)
    /\ WF_vars(Tick)
    /\ WF_vars(CallStopGetChars)
    /\ WF_vars(StopGetChars)
    /\ WF_vars(Join)



\* ---- draining the queue, with the Any toggle off or on.
\* The matchers of the listeners registered: a type, or "any".
AnyMatchers == {"key", "error", "any"}

\* The state after Eventable.__init__, with the toggle of line 9 off or on.
InitDrain ==
    /\ event_queue = <<>>
    /\ listeners = <<>>
    /\ ANY_EVENTS \in BOOLEAN
    /\ pc = "idle"
    /\ limit = 0
    /\ i = 0
    /\ ret = -1
    /\ event = NoEvent
    /\ snap = <<>>
    /\ mi = 1
    /\ li = 1
    /\ cpend = NoEvent
    /\ ppend = NoEvent
    /\ produced = 0
    /\ registered = <<>>
    /\ appended = <<>>
    /\ dispatched = <<>>
    /\ calls = <<>>
    /\ fired = [c \in Callbacks \cup {0} |-> 0]
    /\ quiet = TRUE
    /\ startLen = 0
    /\ startEmpty = TRUE
    /\ CanvasAtRest
    /\ CallAtRest
    /\ TermAtRest

\* handle_events called with a limit of at least one event.
HandleEventsSome == \E lim \in 1..MaxLimit : HandleEventsBegin(lim)
InvokeListenerAny == \E raised \in BOOLEAN : InvokeListener(raised)
FallbackAny == \E raised \in BOOLEAN : Fallback(raised)

NextDrain ==
    \/ \E key \in Keys : ReaderCallEvent(key)
    \/ ReaderCallEventAny
    \/ \E e \in AnyMatchers : AddListener(e, FALSE)
    \/ HandleEventsSome
    \/ LoopTest
    \/ Return
    \/ Pop
    \/ InvokeListenerAny
    \/ EndFor
    \/ FallbackAny
    \/ OwnerCallEventAny

\* The owning thread keeps calling handle_events and every call_event begun
\* is finished; nothing makes the producer call call_event.
SpecDrain ==
    /\ InitDrain
    /\ [][NextDrain]_vars
    /\ WF_vars(ReaderCallEventAny)
    /\ WF_vars(HandleEventsSome)
    /\ WF_vars(LoopTest)
    /\ WF_vars(Return)
    /\ WF_vars(Pop)
    /\ WF_vars(InvokeListenerAny)
    /\ WF_vars(EndFor)
    /\ WF_vars(FallbackAny)
    /\ WF_vars(OwnerCallEventAny)



\* ------------------------------------------------------------------ claims
\* The n of the events of a queue; the callbacks of a listener list.
Ns(q) == [k \in 1..Len(q) |-> q[k].n]
CbsOf(l) == [k \in 1..Len(l) |-> l[k].cb]

\* The invocations of the current dispatch made through matcher e.
CallsOn(e) ==
    LET Through(c) == c.m = e
    IN SelectSeq(calls, Through)

\* The number of invocations of callback cb in the current dispatch.
TimesCalled(cb) == Cardinality({k \in 1..Len(calls) : calls[k].cb = cb})

\* handle_event has left its loops for the current event; it has returned.
ListenersDone == pc = "fallback"
DispatchDone == pc \in {"loop", "return"} /\ event # NoEvent

\* The matchers of the dict copy that match the current event.
Matching == {m \in 1..Len(snap) : Match(event, snap[m].e)}

\* C1: when handle_events (limit > 0) returns 0 and nothing was appended
\* during that call, the events were dispatched in exactly the order in which
\* they were appended: drain order equals append order.
C1_FifoDrain ==
    (pc = "return" /\ ret = 0 /\ limit > 0 /\ quiet) => dispatched = Ns(appended)

C1_Witness ==
    pc = "return" /\ ret = 0 /\ limit > 0 /\ quiet /\ Len(dispatched) >= 2

\* C2: in every state of every interleaving of the reader's appends with the
\* owner's pops, the events dispatched so far followed by the events still
\* queued are exactly the appended events, each once, in append order: none is
\* lost, none is dispatched twice, none overtakes another.
C2_ExactlyOnce == dispatched \o Ns(event_queue) = Ns(appended)

C2_Witness == pc = "for" /\ ~quiet /\ event_queue # <<>> /\ Len(dispatched) >= 1

\* C3: handle_events(limit) never dispatches more than limit events; the value
\* it returns is the number of events it dispatched; it returns 0 when the
\* queue was empty at the call; and without a concurrent append a value below
\* limit means the queue is empty at the return.
C3_HandleEventsCount ==
    /\ pc \in {"loop", "pop", "for", "fallback", "return"} =>
           Len(dispatched) - startLen <= limit
    /\ pc = "return" =>
           /\ ret = Len(dispatched) - startLen
           /\ ret <= limit
           /\ (startEmpty /\ quiet) => ret = 0
           /\ (quiet /\ ret < limit) => event_queue = <<>>

C3_Witness == pc = "return" /\ quiet /\ ret = 1 /\ limit = 2 /\ ~startEmpty

\* C4 (as stated): when the dispatch of an event has run through the
\* listeners, every matching matcher with two listeners L1, L2 has had both
\* invoked, L1 before L2, each exactly once.
C4_BothInOrder ==
    ListenersDone =>
        \A m \in Matching :
            Len(snap[m].l) = 2 => CbsOf(CallsOn(snap[m].e)) = CbsOf(snap[m].l)

\* C5 (as stated): a listener registered with auto_remove has been invoked
\* exactly once as soon as one matching event has been dispatched, however
\* many follow, and is then no longer in the registry.
C5_AutoRemoveOnce ==
    pc # "for" =>
        \A r \in 1..Len(registered) :
            registered[r].ar =>
                LET matched == {d \in 1..Len(dispatched) :
                                    Match(appended[dispatched[d]], registered[r].e)}
                    k == KeyIndex(listeners, registered[r].e)
                IN /\ fired[registered[r].cb] = IF matched = {} THEN 0 ELSE 1
                   /\ matched # {} =>
                          \A j \in 1..Len(listeners[k].l) :
                              listeners[k].l[j].cb # registered[r].cb

\* C6 (as stated): when the dispatch of an event has run through the
\* listeners, every listener of every matching list, auto_remove or not, was
\* invoked exactly once: no removal made the iteration skip one.
C6_NoSkip ==
    ListenersDone =>
        \A m \in Matching :
            \A j \in 1..Len(snap[m].l) : TimesCalled(snap[m].l[j].cb) = 1

\* The listeners that come after callback cb in the iteration order of the
\* dict copy (none after the on_<type> handler).
After(cb) ==
    {c \in Callbacks :
        \E m0 \in 1..Len(snap), m \in Matching :
            \E j0 \in 1..Len(snap[m0].l), j \in 1..Len(snap[m].l) :
                /\ snap[m0].l[j0].cb = cb
                /\ snap[m].l[j].cb = c
                /\ m > m0 \/ (m = m0 /\ j > j0)}

\* C7 (as stated): once an event X that is not an Error event has been
\* dispatched, every invocation that raised has exactly one Error event with
\* its exception in the append history, every listener for X that came after it
\* was invoked after it, and so was the on_<type> handler.
C7_ErrorOnceAndContinue ==
    (DispatchDone /\ event.type # "error") =>
        \A k \in 1..Len(calls) :
            calls[k].raised =>
                /\ Cardinality({a \in 1..Len(appended) :
                                   /\ appended[a].type = "error"
                                   /\ appended[a].of = <<event.n, k>>}) = 1
                /\ \A c \in After(calls[k].cb) :
                       \E k2 \in (k + 1)..Len(calls) : calls[k2].cb = c
                /\ event.type \in Handlers => calls[Len(calls)].cb = 0

\* C8: no Error event is ever appended for an exception raised while an Error
\* event was being dispatched, and no exception leaves handle_events.
C8_NoErrorRecursion ==
    /\ pc # "raised"
    /\ \A a \in 1..Len(appended) :
           appended[a].type = "error" => appended[appended[a].of[1]].type # "error"

C8_Witness ==
    /\ DispatchDone
    /\ event.type = "error"
    /\ \E k1, k2 \in 1..Len(calls) :
           /\ calls[k1].raised /\ calls[k1].cb # 0
           /\ calls[k2].raised /\ calls[k2].cb = 0

\* C9 (as stated): once an event whose on_<type> handler is defined has been
\* dispatched, the handler has been invoked exactly once, as the last
\* invocation, and every listener of every matching list was invoked before
\* it, whether or not a listener raised.
C9_FallbackAfterAll ==
    (DispatchDone /\ event.type \in Handlers) =>
        /\ TimesCalled(0) = 1
        /\ calls[Len(calls)].cb = 0
        /\ \A m \in Matching :
               \A j \in 1..Len(snap[m].l) :
                   \E k \in 1..(Len(calls) - 1) : calls[k].cb = snap[m].l[j].cb

\* C10: the canvas always has exactly h rows and every row has exactly w
\* cells, after construction and after every call, failed ones included.
C10_Shape ==
    /\ Len(canvas.data) = canvas.h
    /\ \A y \in 1..Len(canvas.data) : Len(canvas.data[y]) = canvas.w

C10_Witness ==
    /\ ~ok
    /\ canvas.w = 3 /\ canvas.h = 2
    /\ canvas.data[1] = <<"a", " ", "a">>
    /\ canvas.data[2] = <<" ", "a", " ">>

\* C11: after clear() every get_at(x, y) with 0 <= x < w and 0 <= y < h returns
\* the space character and, on a StylizedCanvas, every get_style_at(x, y)
\* returns the reset style 0, whatever the content before; clear() returns.
C11_ClearDefaults ==
    call.op \in {"clear", "stylized_clear"} =>
        /\ ok
        /\ \A x \in 0..(canvas.w - 1), y \in 0..(canvas.h - 1) :
               /\ GetAt(canvas, x, y) = Value(<<" ">>)
               /\ call.op = "stylized_clear" =>
                      GetStyleAt(canvas, styles, x, y) = Value(0)

C11_Witness ==
    /\ call.op = "stylized_clear"
    /\ canvas.w = MaxW /\ canvas.h = 2
    /\ call.before.data[2][MaxW] = "a"
    /\ call.st[2][MaxW] = 1
    /\ GetStyleAt(canvas, styles, MaxW - 1, 1) = Value(0)

\* The call was write_at at a valid (x, y) with a text without line breaks.
WroteOneLine ==
    /\ call.op = "write_at"
    /\ 0 <= call.x /\ call.x < call.before.w
    /\ 0 <= call.y /\ call.y < call.before.h
    /\ \A k \in 1..Len(call.text) : call.text[k] # "\n"

\* C12: after write_at(x, y, text) at a valid (x, y), with a text without line
\* breaks and x + len(text) <= w, get_line_part(y, x, len(text)) returns the
\* text exactly.
C12_RoundTrip ==
    (WroteOneLine /\ call.x + Len(call.text) <= call.before.w) =>
        /\ ok
        /\ GetLinePart(canvas, call.y, call.x, Len(call.text)) = Value(call.text)

C12_Witness ==
    /\ WroteOneLine
    /\ call.x = 1 /\ Len(call.text) = 2 /\ call.before.w = 3
    /\ GetLinePart(call.before, call.y, call.x, 2) # Value(call.text)

\* C13: after write_at(x, y, text) at a valid (x, y) with a text without line
\* breaks, the call has returned; reading the cells from (x, y) on in row
\* order (row y from column x, the rows below from column 0, each up to column
\* w - 1, down to row h - 1) gives the text, or the prefix of it that fits when
\* the text runs past row h - 1; every other cell is as it was, and the canvas
\* has no row at or below h.
C13_WrapPrefix ==
    WroteOneLine =>
        LET w == call.before.w
            h == call.before.h
            room == (w - call.x) + (h - 1 - call.y) * w
            n == IF Len(call.text) < room THEN Len(call.text) ELSE room
            Row(p) == call.y + ((call.x + p) \div w)
            Col(p) == (call.x + p) % w
        IN /\ ok
           /\ canvas.w = w /\ canvas.h = h /\ Len(canvas.data) = h
           /\ \A p \in 0..(n - 1) : canvas.data[Row(p) + 1][Col(p) + 1] = call.text[p + 1]
           /\ \A r \in 0..(h - 1), c \in 0..(w - 1) :
                  (\A p \in 0..(n - 1) : <<Row(p), Col(p)>> # <<r, c>>) =>
                      canvas.data[r + 1][c + 1] = call.before.data[r + 1][c + 1]

\* A text of three cells wraps at column w = 2 from x = 1 into the next row; a
\* text of three cells on a canvas of width 1 and height 2 is cut after two.
C13_Witness ==
    /\ WroteOneLine
    /\ Len(call.text) = 3
    /\ call.before.w = 1 /\ call.before.h = 2 /\ call.y = 0
    /\ canvas.data = <<<<call.text[1]>>, <<call.text[2]>>>>
    /\ canvas # call.before

\* The canvas new came from sub(0, 0, w, h) of the source.
FullSub ==
    /\ call.op \in {"sub", "mutate_new", "mutate_src"}
    /\ call.x = 0 /\ call.y = 0 /\ call.w = canvas.w /\ call.h = canvas.h

\* What C14 says of a source after sub(0, 0, w, h): a canvas was returned; it
\* has the dimensions and the cells of the source; a mutation of it leaves the
\* source as it was, and a mutation of the source leaves it as it was.
IsIndependentCopy ==
    /\ new.made
    /\ call.op = "sub" =>
           new.w = canvas.w /\ new.h = canvas.h /\ new.data = canvas.data
    /\ call.op = "mutate_new" => canvas = call.before
    /\ call.op = "mutate_src" => AsCanvas(new) = call.src

\* C14 (as stated): for every plain Canvas, sub(0, 0, w, h) returns an
\* independent copy with the same dimensions and cells.
C14_SubIsCopy == FullSub => IsIndependentCopy

\* C14 (amended): for every plain Canvas with w >= 1 and h >= 1, sub(0, 0, w, h)
\* returns an independent copy with the same dimensions and cells; on a canvas
\* with w = 0 or h = 0 the call fails its bounds check and returns nothing.
C14_SubIsCopyNonEmpty ==
    FullSub =>
        IF canvas.w >= 1 /\ canvas.h >= 1
        THEN IsIndependentCopy
        ELSE ~ok /\ ~new.made

C14_Witness ==
    /\ FullSub
    /\ canvas.w = 2 /\ canvas.h = 2
    /\ call.op = "mutate_new"
    /\ AsCanvas(new) # call.src
    /\ canvas = call.before

\* The call was blit(src, x, y) at a position on the canvas, with a source
\* that fits: x + src.w <= w and y + src.h <= h.
BlitFits ==
    /\ call.op \in {"blit", "blit_self"}
    /\ 0 <= call.x /\ 0 <= call.y
    /\ call.x + call.src.w <= call.before.w
    /\ call.y + call.src.h <= call.before.h

\* C15: after blit(src, x, y) of a source that fits, get_at(x + i, y + j) of
\* the destination equals get_at(i, j) of the source for every 0 <= i < src.w
\* and 0 <= j < src.h, and every cell of the destination outside that
\* rectangle is as it was.
C15_BlitCells ==
    BlitFits =>
        /\ \A di \in 0..(call.src.w - 1), dj \in 0..(call.src.h - 1) :
               /\ GetAt(canvas, call.x + di, call.y + dj).ok
               /\ GetAt(canvas, call.x + di, call.y + dj) = GetAt(call.src, di, dj)
        /\ canvas.w = call.before.w /\ canvas.h = call.before.h
        /\ \A c \in 0..(canvas.w - 1), r \in 0..(canvas.h - 1) :
               ~(/\ call.x <= c /\ c < call.x + call.src.w
                 /\ call.y <= r /\ r < call.y + call.src.h) =>
                   GetAt(canvas, c, r) = GetAt(call.before, c, r)

C15_Witness ==
    /\ BlitFits
    /\ call.op = "blit"
    /\ call.src.w = 2 /\ call.src.h = 2
    /\ call.x = 1 /\ call.y = 0
    /\ call.src.data = <<<<"a", " ">>, <<" ", "a">>>>
    /\ call.before.data = <<<<"a", " ", "a">>, <<"a", "a", " ">>>>
    /\ ok

\* The last call was a cell, line or non-empty line-part read or write out of
\* bounds: x outside [0, w), y outside [0, h), or a part (a line) reaching
\* past column w.
OutOfBounds ==
    LET xOut == ~(0 <= call.x /\ call.x < call.before.w)
        yOut == ~(0 <= call.y /\ call.y < call.before.h)
    IN \/ call.op \in {"get_at", "set_at"} /\ (xOut \/ yOut)
       \/ call.op = "get_line" /\ yOut
       \/ call.op = "set_line" /\ (yOut \/ Len(call.text) > call.before.w)
       \/ /\ call.op = "get_line_part" /\ call.w >= 1
          /\ (xOut \/ yOut \/ call.x + call.w > call.before.w)
       \/ /\ call.op = "set_line_part" /\ call.text # <<>>
          /\ (xOut \/ yOut \/ call.x + Len(call.text) > call.before.w)

\* C16: every cell, line and non-empty line-part read or write out of bounds
\* fails an assert and leaves the canvas as it was; in particular no write is
\* cut to the row.
C16_OutOfBoundsFails == OutOfBounds => (~ok /\ canvas = call.before)

C16_Witness ==
    /\ OutOfBounds
    /\ call.op = "set_line_part"
    /\ call.before.w = 3 /\ call.before.h = 2
    /\ call.x = 2 /\ call.y = 1 /\ Len(call.text) = 2
    /\ ~ok

\* A row without its trailing default-character cells.
RECURSIVE StripDefault(_)
StripDefault(line) ==
    IF line # <<>> /\ line[Len(line)] = DEFAULT_CHAR
    THEN StripDefault(SubSeq(line, 1, Len(line) - 1))
    ELSE line

\* What C17 says draw emits for the rows from row k on.
RECURSIVE EmittedFrom(_, _)
EmittedFrom(c, k) ==
    IF k > Len(c.data) THEN <<>>
    ELSE LET line == c.data[k]
             l == StripDefault(line)
         IN l \o (IF Len(l) < Len(line) THEN <<"ESC[0K">> ELSE <<>>) \o <<"\r", "\n">>
              \o EmittedFrom(c, k + 1)

\* C17 (as stated): draw emits, for each row from top to bottom, the row
\* without its trailing space cells, then CSI 0K if and only if the row was
\* shortened, then the line terminator, and nothing else.
C17_DrawEmits == call.op = "draw" => stdout = EmittedFrom(canvas, 1)

\* The control sequence of each gated function, and how often a sequence
\* occurs in what a call wrote.
ControlSequence(fn) ==
    CASE fn = "enable_mouse_tracking" -> "ESC[?1002h"
      [] fn = "disable_mouse_tracking" -> "ESC[?1002l"
      [] fn = "enable_bracketed_paste" -> "ESC[?2004h"
      [] fn = "disable_bracketed_paste" -> "ESC[?2004l"
      [] fn = "enable_alternative_screen" -> "ESC[?1049h"
      [] fn = "disable_alternative_screen" -> "ESC[?1049l"
      [] fn = "set_cursor_visible" -> "ESC[?25h"
      [] fn = "set_cursor_invisible" -> "ESC[?25l"

Occurrences(out, item) == Cardinality({k \in 1..Len(out) : out[k] = item})

GatedCall == call.name \in PropNames

\* C18: after any sequence of calls, a call whose value equals the cached value
\* of its property, not forced, wrote nothing and left the cache as it was;
\* any other call wrote its control sequence exactly once and left the cache
\* of its property equal to its value, the other properties as they were.
C18_CacheGating ==
    GatedCall =>
        IF call.t.props[call.name] = call.value /\ ~call.force
        THEN stdout = <<>> /\ term.props = call.t.props
        ELSE /\ Occurrences(stdout, ControlSequence(call.op)) = 1
             /\ term.props = [call.t.props EXCEPT ![call.name] = call.value]

C18_Witness ==
    /\ GatedCall
    /\ call.op = "enable_alternative_screen"
    /\ call.t.props["alternative_screen"] = "True"
    /\ call.t.props["mouse_tracking"] = "False"
    /\ call.force
    /\ stdout = <<"ESC[s", "ESC[?1049h", "ESC[2J">>

\* The known style bits, and the SGR codes of the known bits of a style in
\* the order of the table.
RECURSIVE KnownMaskFrom(_)
KnownMaskFrom(k) ==
    IF k > Len(KnownStyles) THEN 0 ELSE KnownStyles[k].s + KnownMaskFrom(k + 1)

RECURSIVE CodesFrom(_, _)
CodesFrom(style, k) ==
    IF k > Len(KnownStyles) THEN <<>>
    ELSE (IF BitAnd(style, KnownStyles[k].s) # 0
          THEN <<"ESC[" \o KnownStyles[k].code \o "m">> ELSE <<>>)
         \o CodesFrom(style, k + 1)

\* What C19 says of set_style(s) when the bits of active are active: what it
\* wrote, the tracked style it left, and that a second set_style(s) writes
\* nothing.
SetStyleEmits(active) ==
    LET wanted == BitAnd(call.style, KnownMaskFrom(1))
    IN /\ IF BitAndNot(active, call.style) = 0
          THEN stdout = CodesFrom(BitAndNot(wanted, active), 1)
          ELSE stdout = <<"ESC[0m">> \o CodesFrom(wanted, 1)
       /\ term.current_style = wanted
       /\ SetStyle(term, <<>>, call.style).out = <<>>

\* C19 (as stated): set_style(s) writes the codes of the bits of s not yet
\* active and no reset if every active bit is in s, one reset and the codes
\* of all bits of s otherwise; the tracked style is then s; a second
\* set_style(s) writes nothing.  Before any style was applied no bit is active.
C19_SetStyle ==
    call.op = "set_style" =>
        SetStyleEmits(IF call.t.current_style = None THEN 0 ELSE call.t.current_style)

\* C19 (amended): as stated when a style is tracked; when none is (the
\* tracked style is None, as after construction), set_style(s) writes one
\* reset and the codes of all bits of s.
C19_SetStyleTracked ==
    call.op = "set_style" =>
        IF call.t.current_style = None
        THEN /\ stdout = <<"ESC[0m">> \o CodesFrom(call.style, 1)
             /\ term.current_style = BitAnd(call.style, KnownMaskFrom(1))
             /\ SetStyle(term, <<>>, call.style).out = <<>>
        ELSE SetStyleEmits(call.t.current_style)

C19_Witness ==
    /\ call.op = "set_style"
    /\ call.t.current_style = 3
    /\ call.style = 64 + 4 + 1
    /\ stdout = <<"ESC[0m", "ESC[1m", "ESC[3m">>
    /\ term.current_style = 5

\* The sequences C20 is about: ESC [ and a final of the six, or ESC [ n ~
\* with 1 <= n <= 34; the n of the latter.
IsArrow(text) == Len(text) = 3 /\ text[1] = ESC /\ text[2] = "[" /\ text[3] \in Finals

CodeOf(text) == ParseInt(SubSeq(text, 3, Len(text) - 1))

IsCode(text) ==
    /\ Len(text) >= 4
    /\ text[1] = ESC
    /\ text[2] = "["
    /\ text[Len(text)] = "~"
    /\ IsDecimal(SubSeq(text, 3, Len(text) - 1))
    /\ CodeOf(text) \in 1..34

\* The key events the claim names for such a sequence.
Named(key) == <<[type |-> "key", args |-> <<key, FALSE>>]>>

KeysNamed(text) ==
    IF IsArrow(text)
    THEN CASE text[3] = "A" -> Named("up")
           [] text[3] = "B" -> Named("down")
           [] text[3] = "C" -> Named("right")
           [] text[3] = "D" -> Named("left")
           [] text[3] = "H" -> Named("home")
           [] text[3] = "F" -> Named("end")
    ELSE IF KEYS[CodeOf(text)] = Unset THEN <<>> ELSE Named(KEYS[CodeOf(text)])

TableEntries ==
    /\ KEYS[3] = "delete"
    /\ KEYS[2] = "insert"
    /\ KEYS[5] = "pageup"
    /\ KEYS[11] = "f1"
    /\ KEYS[34] = "f20"

IsPrefix(s, t) == Len(s) <= Len(t) /\ s = SubSeq(t, 1, Len(s))

\* Every byte sent was read and the decoder is back in Idle.
Decoded == wire = <<>> /\ stdin = <<>> /\ DecoderIdle

\* No event but those named is ever produced, and once the sequence is decoded
\* exactly those were.
ProducesNamed ==
    /\ IsPrefix(event_queue, KeysNamed(call.text))
    /\ Decoded => event_queue = KeysNamed(call.text)

\* C20 (as stated): from Idle, ESC [ and a final byte A, B, C, D, H or F
\* produce exactly one key event (up, down, right, left, home, end), and
\* ESC [ n ~ with 1 <= n <= 34 exactly the key event of entry n of the table
\* (3 delete, 2 insert, 5 pageup, 11 f1, 34 f20), or none for an unassigned
\* entry; no bare-ESC event and no alt-flagged event is produced.
C20_KeyTable ==
    (IsArrow(call.text) \/ IsCode(call.text)) => TableEntries /\ ProducesNamed

\* get_chars read the "[" less than ALT_TIMEOUT after it read the ESC; it read
\* it ALT_TIMEOUT or more after.
ReadInTime == Len(call.out) >= 2 /\ call.out[2] - call.out[1] < ALT_TIMEOUT
ReadLate == Len(call.out) >= 2 /\ call.out[2] - call.out[1] >= ALT_TIMEOUT

\* C20 (amended): as stated when the decoder reads the "[" less than the
\* alt-key timeout after the ESC; when it reads it later, the first event
\* produced is a bare-ESC key event; until the "[" is read, no event but a
\* bare-ESC key event is produced.
C20_KeyTableInTime ==
    (IsArrow(call.text) \/ IsCode(call.text)) =>
        /\ TableEntries
        /\ ReadInTime => ProducesNamed
        /\ ReadLate => event_queue # <<>> /\ event_queue[1] = Named(ESC)[1]
        /\ Len(call.out) < 2 => IsPrefix(event_queue, Named(ESC))

C20_Witness ==
    /\ call.text = <<ESC, "[", "3", "4", "~">>
    /\ Decoded
    /\ call.out = <<1, 2>>
    /\ clock = 4
    /\ event_queue = Named("f20")

\* The number of bytes of the sequence the decoder has read.
Consumed == Len(call.text) - Len(wire) - Len(stdin)

\* No ESC has aged past the alt-key timeout: no bare-ESC key event was produced.
NoTimeout == \A k \in 1..Len(event_queue) : event_queue[k] # Named(ESC)[1]

OfType(q, type) == SelectSeq(q, LAMBDA e : e.type = type)

\* The text between the two markers of a paste sequence.
PastedText(text) == SubSeq(text, 7, Len(text) - 6)

\* C21: the bytes ESC [ 2 0 0 ~ <text> ESC [ 2 0 1 ~ (each marker read within
\* the alt-key timeout) produce exactly one Paste event, carrying <text>, and
\* no Key event; the pasting flag is true exactly from the end of the first
\* marker to the end of the second.
C21_PasteText ==
    (call.text \in PasteSequences /\ ~call.t.pasting /\ NoTimeout) =>
        /\ OfType(event_queue, "key") = <<>>
        /\ term.pasting <=> (6 <= Consumed /\ Consumed < Len(call.text))
        /\ Decoded => OfType(event_queue, "paste") = <<[type |-> "paste", args |-> <<PastedText(call.text)>>]>>
        /\ ~Decoded => OfType(event_queue, "paste") = <<>>

\* A lone ESC was sent; it was read, early enough for the clock of the model
\* to reach the timeout.
LoneEsc == call.text = <<ESC>>

LoneEscRead == LoneEsc /\ Consumed = 1 /\ term.last_key + ALT_TIMEOUT <= MaxClock

LoneEscReported == event_queue = Named(ESC) /\ DecoderIdle

\* C22: a lone ESC produces no event before the alt-key timeout has elapsed
\* since it was read and never any event but one key event ESC with alt
\* false, after which the decoder is in Idle; and once read it does produce
\* that event.
C22_LoneEsc ==
    /\ [](LoneEsc =>
            /\ IsPrefix(event_queue, Named(ESC))
            /\ event_queue # <<>> =>
                    /\ clock - term.last_key >= ALT_TIMEOUT
                    /\ DecoderIdle)
    /\ (LoneEscRead ~> LoneEscReported)

C22_Witness ==
    /\ LoneEsc
    /\ LoneEscReported
    /\ term.last_key = 2
    /\ clock = 4

\* ESC and one byte other than "[" and "O" were sent, and the byte was read
\* less than ALT_TIMEOUT after the ESC.
IsAlt(text) == text \in AltSequences

\* C23: ESC followed within the alt-key timeout by a byte other than "[" and
\* "O" produces exactly one key event, carrying that byte with the alt flag
\* set, and no bare-ESC key event.
C23_AltKey ==
    (IsAlt(call.text) /\ ReadInTime) =>
        event_queue = <<[type |-> "key", args |-> <<call.text[2], TRUE>>]>>

\* Every byte sent was read and get_chars has returned or raised.
AllRead == wire = <<>> /\ stdin = <<>> /\ AtLoop

\* C24: a CSI sequence of more than 10 bytes without a letter or "~" is
\* abandoned and each of its bytes, ESC and "[" included, is re-emitted as a
\* literal key event, in order; no Error event is produced.
C24_OverlongReplayed ==
    (call.text \in OverlongSequences /\ ReadInTime) =>
        /\ OfType(event_queue, "error") = <<>>
        /\ AllRead => event_queue = [k \in 1..Len(call.text) |->
                                        [type |-> "key", args |-> <<call.text[k], FALSE>>]]

\* Bit v (a power of two) of n, and n & 67 for a byte.
HasBit(n, v) == (n \div v) % 2 = 1

And67(n) == (n % 4) + 64 * ((n \div 64) % 2)

\* The Mouse event C25 names for the report ESC [ M b cx cy.
MouseNamed(text) ==
    LET b == Ord(text[4]) - 32
    IN [type |-> "mouse",
        args |-> <<And67(b), Ord(text[5]) - 32 - 1, Ord(text[6]) - 32 - 1,
                   4 * ((b \div 4) % 16)>>,
        button |-> And67(b), x |-> Ord(text[5]) - 32 - 1, y |-> Ord(text[6]) - 32 - 1,
        shift |-> HasBit(b, 4), alt |-> HasBit(b, 8), meta |-> HasBit(b, 8),
        ctrl |-> HasBit(b, 16), hold |-> HasBit(b, 32)]

\* The report of button 0 at column 5, row 10 gives button 0, x 4, y 9 and no
\* modifier.
MouseExample ==
    LET e == MouseNamed(<<ESC, "[", "M", " ", "%", "*">>)
    IN /\ e.button = 0 /\ e.x = 4 /\ e.y = 9
       /\ ~e.shift /\ ~e.alt /\ ~e.meta /\ ~e.ctrl /\ ~e.hold

Tracking == GetProp(call.t, "mouse_tracking") = "True"

ProducesMouse ==
    /\ IsPrefix(event_queue, <<MouseNamed(call.text)>>)
    /\ Decoded => event_queue = <<MouseNamed(call.text)>>

\* C25 (as stated): with mouse tracking enabled, ESC [ M b cx cy produces
\* exactly one Mouse event, with button (b-32) & 67, x cx-32-1, y cy-32-1 and
\* shift/alt/meta/ctrl/hold the bits 4/8/8/16/32 of b-32.
C25_MouseReport ==
    (call.text \in MouseSequences /\ Tracking) => MouseExample /\ ProducesMouse

\* C25 (amended): as stated when the decoder reads the "[" less than the
\* alt-key timeout after the ESC; when it reads it later, the first event
\* produced is a bare-ESC key event and no Mouse event is produced.
C25_MouseReportInTime ==
    (call.text \in MouseSequences /\ Tracking) =>
        /\ MouseExample
        /\ ReadInTime => ProducesMouse
        /\ ReadLate => event_queue[1] = Named(ESC)[1] /\ OfType(event_queue, "mouse") = <<>>
        /\ Len(call.out) < 2 => IsPrefix(event_queue, Named(ESC))

C25_Witness ==
    /\ call.text = <<ESC, "[", "M", "|", "%", "*">>
    /\ Tracking
    /\ Decoded
    /\ ReadInTime
    /\ event_queue[1].button = 64
    /\ event_queue[1].x = 4
    /\ event_queue[1].y = 9
    /\ event_queue[1].shift /\ event_queue[1].alt /\ event_queue[1].ctrl /\ ~event_queue[1].hold

\* C26: a complete mouse report received while mouse tracking is not enabled
\* produces no event of any type, and the decoder is in Idle after it.
C26_MouseReportDropped ==
    (call.text \in MouseSequences /\ ~Tracking /\ ReadInTime) =>
        /\ event_queue = <<>>
        /\ AllRead => DecoderIdle

\* The owning thread is inside stop_get_chars, at the join.
Joining == app.pc = "join"
StopReturned == app.pc = "returned"

\* C27: stop_get_chars called while the reader thread is running eventually
\* returns (the reader loop sees the cleared flag, exits, and the join
\* completes), whatever state the decoder is in and without any further
\* input byte.
C27_StopReturns == Joining ~> StopReturned

\* get_key_init has run and get_key_quit has not; App.run has left its loop
\* or has returned.
RawMode == tty.mode = Raw
Restored == tty.mode = Cooked /\ tty.old_settings = Unset
RunLeft == app.pc \in {"quit", "uninit", "stop", "join", "returned"}

\* C28: whenever raw mode has been entered, the original mode of the terminal
\* is eventually restored on every exit path of App.run: a normal stop, an
\* exception in update or in render, and a failure inside init after the
\* reader thread was started.
C28_RawModeRestored == (RawMode /\ RunLeft) ~> Restored

\* loop_get_chars has returned: the first get_key_quit has run.
ReaderExited == reader.pc = "exited"

\* C29: after get_key_init, the first get_key_quit restores the saved
\* original settings, and any further get_key_quit, App.quit or Terminal.stop
\* changes no terminal mode and emits no control sequence.
C29_TeardownIdempotent ==
    [][/\ (~ReaderExited /\ ReaderExited') =>
              /\ tty.mode = Raw
              /\ tty'.mode = tty.old_settings
              /\ tty' = NewTty
       /\ ReaderExited =>
              /\ tty' = tty
              /\ stdout' = stdout
              /\ term'.props = term.props]_vars

\* Terminal.stop was called again after the teardown, and has returned.
C29_Witness ==
    /\ ReaderExited
    /\ call.op = "stop"
    /\ app.pc = "returned"
    /\ tty = NewTty
    /\ stdout # <<>>

\* The attributes a thread has accessed, and those it has written.
AccessedBy(thread) == {a.of : a \in {b \in access : b.by = thread}}
WrittenBy(thread) == {a.of : a \in {b \in access : b.by = thread /\ b.how = "write"}}

\* C30: the event queue is the only state both threads access; the reader
\* thread never reads or writes the property cache, the style bitmask or the
\* canvas, and it writes nothing but the queue and its own parsing state (the
\* time of the last byte, the pasting flag, the paste buffer).
C30_SharedState ==
    /\ AccessedBy("reader") \cap AccessedBy("owner") \subseteq {"event_queue"}
    /\ AccessedBy("reader") \cap {"props", "current_style", "canvas"} = {}
    /\ WrittenBy("reader") \subseteq {"event_queue", "last_key", "pasting", "paste_text"}

\* The listener invocations of the current dispatch (callback k is the one
\* the k-th add_listener call registered; 0 is the on_<type> handler).
ListenerCalls ==
    LET IsListener(c) == c.cb # 0
    IN SelectSeq(calls, IsListener)

\* C31: across the matchers that match one event, the listeners are invoked
\* in the order in which they were registered: with L1 on matcher A, L2 on
\* matcher B and L3 on A, an event matching A and B invokes L1, L2, L3.
C31_RegistrationOrder ==
    \A j, k \in 1..Len(ListenerCalls) :
        j < k => ListenerCalls[j].cb < ListenerCalls[k].cb

\* Callback cb was registered with auto_remove; it is in the registry.
IsAutoRemove(cb) == \E r \in 1..Len(registered) : registered[r].cb = cb /\ registered[r].ar
IsRegistered(cb) ==
    \E m \in 1..Len(listeners) : \E j \in 1..Len(listeners[m].l) : listeners[m].l[j].cb = cb

\* C32: an auto_remove listener stays registered as long as its invocations
\* raise, and is removed by the first invocation that completes without
\* raising: after its first invocation it is registered exactly if that
\* invocation raised.
C32_RemovedOnSuccess ==
    \A k \in 1..Len(calls) :
        (calls[k].cb # 0 /\ IsAutoRemove(calls[k].cb) /\ fired[calls[k].cb] = 1) =>
            (IsRegistered(calls[k].cb) <=> calls[k].raised)

\* An unknown CSI command was sent, alone or with the key "x" after it; the
\* command, and the number of its bytes.
UnknownSent == call.text \in UnknownSequences
UnknownPart == CHOOSE text \in UnknownCsi : IsPrefix(text, call.text)
FollowedByKey == Len(call.text) > Len(UnknownPart)

\* What the key "x" alone produces from the terminal the run began with: a
\* key event, or a character of the paste buffer.
KeyAloneEvents == IF FollowedByKey /\ ~call.t.pasting THEN Named("x") ELSE <<>>
KeyAlonePaste ==
    IF FollowedByKey /\ call.t.pasting THEN Append(call.t.paste_text, "x")
    ELSE call.t.paste_text

ReaderStopped == call.op = "stop_get_chars"
QueueStopped == equeue.self_stop

\* C34: a stop request issued on the thread it stops (stop_get_chars on the
\* reader thread, EventQueue.stop in a handler on the queue's thread) only
\* clears the running flag and returns, the thread going on where it was and
\* joining nothing, and the next test of the thread's loop leaves the loop.
C34_StopOnOwnThread ==
    [][/\ (~ReaderStopped /\ ReaderStopped') =>
              /\ ~term'.running
              /\ reader' = reader
              /\ app' = app
       /\ (ReaderStopped /\ reader.pc = "loop" /\ reader'.pc # "loop") =>
              reader'.pc = "exited"
       /\ (~QueueStopped /\ QueueStopped') =>
              /\ ~equeue'.running
              /\ equeue'.queue = equeue.queue
              /\ equeue'.stop = equeue.stop
              /\ equeue'.thread \in {[equeue.thread EXCEPT !.h = @ + 1],
                                     [equeue.thread EXCEPT !.pc = "loop"]}
       /\ (QueueStopped /\ equeue.thread.pc = "loop" /\ equeue'.thread.pc # "loop") =>
              equeue'.thread.pc = "done"]_vars

\* Both stop requests were made on the threads they stop, and both loops
\* have been left.
C34_Witness ==
    /\ ReaderStopped
    /\ reader.pc = "exited"
    /\ QueueStopped
    /\ equeue.thread.pc = "done"
    /\ equeue.queue # <<>>

\* stop(wait=True) was called by another thread on a running queue, and no
\* handler called stop() itself.
WaitCalled ==
    /\ equeue.stop.pc # "idle"
    /\ equeue.stop.wait
    /\ equeue.stop.on_running
    /\ ~equeue.self_stop
WaitReturned == WaitCalled /\ equeue.stop.pc = "returned"
\* Every event queued before the call has been passed to every handler.
AllPassed ==
    \A ev \in 1..equeue.stop.before : \A h \in 1..equeue.handlers : <<ev, h>> \in equeue.passed

\* C40: EventQueue.stop(wait=True) called from another thread on a running
\* queue returns only after every event queued before the call was passed to
\* all handlers, and it eventually returns, also when a handler raises.
C40_WaitStop ==
    /\ [](WaitReturned => AllPassed)
    /\ (WaitCalled ~> (WaitReturned \/ equeue.self_stop))

\* sub over the full region of a StylizedCanvas, or copy, has returned.
FullRegion == call.x = 0 /\ call.y = 0 /\ call.w = canvas.w /\ call.h = canvas.h
StylizedCopied ==
    /\ ok
    /\ \/ call.op = "stylized_sub" /\ FullRegion
       \/ call.op = "stylized_copy"

\* C35: sub over the full region of a StylizedCanvas, and copy, return an
\* independent styled canvas with the characters and the per-cell styles of
\* the source, and a mutation of the result leaves the source as it was.
C35_StylizedSubIsCopy ==
    /\ StylizedCopied =>
           /\ new.made
           /\ AsCanvas(new) = canvas
           /\ new.styles = styles
           /\ ~new.same
    /\ call.op = "mutate_new" => (canvas = call.before /\ styles = call.st)

\* stop_get_chars() has been called after start_get_chars() returned; it has
\* returned with the reader thread ended and the flag cleared.
StopCalled == app.pc \in {"stop", "join"}
StopDone == app.pc = "returned" /\ reader.pc = "exited" /\ ~term.running

\* C36: a stop_get_chars() called after start_get_chars() has returned is
\* never lost, whatever the reader thread has executed so far: the reader
\* thread ends, stop_get_chars returns, and running is false afterwards.
C36_StopNeverLost ==
    /\ [](app.pc = "returned" => (reader.pc = "exited" /\ ~term.running))
    /\ (StopCalled ~> StopDone)

\* A cursor-position report that makes csi_command raise was sent, alone or
\* with the key "x" after it; the report, and whether the key follows.
RaisingSent == call.text \in RaisingSequences
RaisingPart == CHOOSE text \in RaisingCsi : IsPrefix(text, call.text)
KeyFollows == Len(call.text) > Len(RaisingPart)
ErrorEvents37 == OfType(event_queue, "error")

\* C37: when decoding an escape sequence raises inside the reader loop,
\* exactly one Error event is enqueued, the loop keeps running and the decoder
\* is back in Idle: no bare-ESC key event is produced later for the ESC of
\* the sequence, and the next plain byte is reported without the alt flag.
C37_RaiseRecovered ==
    (RaisingSent /\ ReadInTime) =>
        /\ NoTimeout
        /\ Len(ErrorEvents37) <= 1
        /\ reader.pc # "exited"
        /\ (Consumed >= Len(RaisingPart) /\ AtLoop) =>
               /\ DecoderIdle
               /\ Len(ErrorEvents37) = 1
        /\ (Decoded /\ KeyFollows /\ ~call.t.pasting) =>
               event_queue[Len(event_queue)] = Named("x")[1]

\* The number of callback failures an event stems from: an Error event
\* reports a failure during the dispatch of the event it names, an Any
\* wrapper stands with the event it wraps, a producer's event stems from none.
RECURSIVE ChainDepth(_)
ChainDepth(ev) ==
    CASE ev.type = "error" -> 1 + ChainDepth(appended[ev.of[1]])
      [] ev.type = "any" -> ChainDepth(appended[ev.of[1]])
      [] OTHER -> 0

\* A failure while an Error event, or the wrapper of one, is handled
\* generates no event.
FiniteChain == \A k \in 1..Len(appended) : ChainDepth(appended[k]) <= 1

\* C38: with no further producer input and callbacks that enqueue nothing
\* themselves, repeated handle_events calls eventually leave the queue empty
\* even when callbacks raise, with the Any toggle off or on: the Error events
\* and Any wrappers that failures generate form a finite chain.
C38_DrainingTerminates ==
    /\ []FiniteChain
    /\ []<>(event_queue = <<>>)

\* The closing marker of a bracketed paste, and the events of one type among
\* the events k1..k2 of the queue.
PasteEnd == <<ESC, "[", "2", "0", "1", "~">>
NoneBetween(type, k1, k2) == \A m \in k1..k2 : event_queue[m].type # type

\* C39: every Paste event is preceded by a paste-begin marker received since
\* the previous Paste event (or the run began in a paste), and a closing
\* marker received while not pasting produces no Paste event.
C39_PasteAfterBegin ==
    /\ \A k \in 1..Len(event_queue) :
           event_queue[k].type = "paste" =>
               \/ \E j \in 1..(k - 1) : /\ event_queue[j].type = "paste_begin"
                                        /\ NoneBetween("paste", j + 1, k - 1)
               \/ call.t.pasting /\ NoneBetween("paste", 1, k - 1)
    /\ (call.text = PasteEnd /\ ~call.t.pasting) => OfType(event_queue, "paste") = <<>>

====
